---- MODULE Spec2Model ----
(***************************************************************************)
(* State-machine model of the infrastructure core of Fresh-Scan-MVP:       *)
(*   - the authentication service's session store (src/auth/oauth.py),     *)
(*   - optimistic locking of grocery lists (services/grocery.py over       *)
(*     database/transactions.py),                                          *)
(*   - the profile-aware two-tier cache (src/auth/cache.py),               *)
(*   - the camera circuit breaker (services/camera.py),                    *)
(*   - the per-user Blinkit service registry and session store             *)
(*     (services/integrations/blinkit.py),                                 *)
(*   - the password and Google providers over users_v2                     *)
(*     (src/auth/providers.py),                                            *)
(*   - the connection manager and its health-check worker                  *)
(*     (database/connection.py),                                           *)
(*   - the transaction runtime (database/transactions.py),                 *)
(*   - Google sign-in from the command line (src/auth/cli.py),             *)
(*   - ordering with cart verification (services/integrations/blinkit.py), *)
(*   - the request loop, the cleanup and the exit of the process           *)
(*     (main.py).                                                          *)
(* Every blocking call (a document-store round trip, a file read or write, *)
(* the outbound HTTP request) is a suspension point: one action runs from  *)
(* one such call to the next, so concurrent callers interleave between     *)
(* them.  Each subsystem has its own specification; the variables of the   *)
(* other subsystems stay at their initial values.                          *)
(***************************************************************************)
EXTENDS Integers, Sequences, FiniteSets, TLC

VARIABLES
    now,              \* wall clock, in seconds
    ticks,            \* number of clock advances so far (bounds the clock)
    utc_offset,       \* offset of the host's local time zone from UTC, in seconds
    \* ---- authentication service ----
    auth_sessions,    \* collection auth_sessions: a set of session rows
    auth_audit_log,   \* collection auth_audit_log: event_type -> number of records
    tokens,           \* every JWT signed so far; the jti of a token is its index
    issued_pairs,     \* TokenPairs returned to callers, with the liveness seen at return
    rotations,        \* committed token rotations: old and new jtis
    next_sid,         \* next fresh session _id
    apc,              \* per caller: position inside the service call
    areg,             \* per caller: locals of the running call
    ares,             \* per caller: result of the last finished call
    \* ---- grocery lists ----
    grocery_lists,    \* collection grocery_lists: the committed documents
    next_list_id,     \* next fresh document _id
    gpc,              \* per editor: position in the editing loop and the save
    greg,             \* per editor: current_grocery_list and the locals of the save
    gres,             \* per editor: what the last save returned to its caller
    \* ---- profile-aware cache ----
    cache_files,      \* the cache directory: key -> entry, or NoFile
    memory_cache,     \* the in-process map: key -> response, or 0
    payload_meta,     \* per cached response: when and for which profile it was cached
    invalidated_payloads, \* responses whose entry was rewritten with invalidated = true
    inval_started,    \* number of invalidations started
    inval_done,       \* number of invalidations that have returned
    cpc,              \* per thread: position inside the cache call
    creg,             \* per thread: locals of the running cache call
    cres,             \* per thread: result of the last lookup
    \* ---- circuit breaker ----
    cb_state,         \* CircuitBreaker.state
    failure_count,    \* CircuitBreaker.failure_count
    last_failure_time, \* CircuitBreaker.last_failure_time, -1 for None
    consecutive_failures, \* failures of the wrapped request since its last success
    bpc,              \* per caller: position inside CircuitBreaker.call
    bres,             \* per caller: outcome of the last call
    bentry,           \* per caller: how the last call found and left the breaker
    \* ---- per-user Blinkit services ----
    user_services,    \* _user_services: username -> service, 0 for no entry
    services,         \* the BlinkitIntegrationService objects ever created
    session_files,    \* the sessions directory: per user directory, what it holds
    service_lock,     \* holder of _service_lock, or "none"
    kpc,              \* per thread: position inside the registry call
    kreg,             \* per thread: locals of the running registry call
    kres,             \* per thread: what the last call returned
    kheld,            \* per thread: the service it got from the registry
    app_user,         \* the user logged in to the application, or NoUser
    logged_out,       \* users whose last application event is a logout
    handed_paths,     \* the auth-state paths handed to services, with their user
    got,              \* per user: services Get returned since the last Clear
    retired,          \* per user: services a Clear took out of the registry
    store_cleared,    \* per directory: cleared and no session created since
    app_logins,       \* number of application logins so far
    \* ---- password and Google providers ----
    users_v2,         \* collection users_v2: a set of user rows
    next_uid,         \* next fresh user _id
    ppc,              \* per caller: position inside the provider call
    preg,             \* per caller: locals of the running provider call
    pres,             \* per caller: result of the last finished provider call
    streak,           \* wrong-password logins in a row, one at a time, or Tainted
    fifth_started,    \* when the call that made the streak MAX_LOGIN_ATTEMPTS began
    fifth_returned,   \* when that call returned
    reset_mail,       \* the reset tokens sent out to users
    reset_revoked,    \* jtis signed before a password reset that has completed began
    reset_used,       \* reset tokens with which reset_password has returned True
    \* ---- connection manager ----
    db_state,         \* DatabaseStateMachine._state
    db_client,        \* DatabaseStateMachine._client: 1 for a client, 0 for None
    db_lock,          \* holder of DatabaseStateMachine._lock, or "none"
    shutdown,         \* the event _shutdown is set
    wpc,              \* position of the health-check thread, "none" when none runs
    dpc,              \* per thread: position inside ensure_connected or disconnect
    dattempt,         \* per thread: attempt of the loop of ensure_connected
    dres,             \* per thread: how its last call ended
    \* ---- transaction runtime ----
    xpc,              \* position inside execute_in_transaction
    xreg,             \* its locals, the transaction of the attempt, the last error
    xres,             \* what the last call returned or raised
    txn_state,        \* the transaction of the last attempt in the store
    xruns,            \* number of calls of execute_in_transaction so far
    \* ---- Google sign-in from the command line ----
    opc,              \* position inside login_google_oauth
    pkce_session,     \* state of the PKCESession of the login
    callback_data,    \* OAuthCallbackHandler.callback_data
    callback_local,   \* callback_data as wait_for_callback returned it
    server_up,        \* the callback server is serving
    exchanged,        \* codes sent to the token endpoint, with the states at hand
    oauth_sessions,   \* sessions created for Google logins, with the states
    oauth_logins,     \* number of logins started
    ores,             \* how the last login ended
    callback_seen,    \* the handler has stored a request since this login started the server
    \* ---- ordering ----
    vpc,              \* per user: position inside order_grocery_list_async
    vreg,             \* per user: locals of the order
    vres,             \* per user: the result of the last order
    \* ---- request loop ----
    mpc,              \* position of run
    consecutive_db_failures, \* SmartFridgeSystem.consecutive_db_failures
    connection_failed_streak, \* requests in a row that raised DatabaseConnectionError
    requests,         \* number of menu requests so far
    \* ---- end of the process ----
    critical,         \* where a CriticalError was raised, or "none"
    exit_code,        \* exit status of the process, None while it runs
    cleanup_steps,    \* what _safe_cleanup has done so far, in order
    tpc               \* per user: position of the task of its Clear in the cleanup

authVars == <<auth_sessions, auth_audit_log, tokens, issued_pairs, rotations,
              next_sid, apc, areg, ares>>

clockVars == <<now, ticks>>

envVars == <<utc_offset>>

groceryVars == <<grocery_lists, next_list_id, gpc, greg, gres>>

cacheVars == <<cache_files, memory_cache, payload_meta, invalidated_payloads,
               inval_started, inval_done, cpc, creg, cres>>

\* what the actions of one subsystem leave alone
breakerVars == <<cb_state, failure_count, last_failure_time, consecutive_failures,
                 bpc, bres, bentry>>

blinkitVars == <<user_services, services, session_files, service_lock, kpc, kreg,
                 kres, kheld, app_user, logged_out, handed_paths, got, retired,
                 store_cleared, app_logins>>

providerVars == <<users_v2, next_uid, ppc, preg, pres, streak, fifth_started,
                  fifth_returned, reset_mail, reset_revoked, reset_used>>

lockoutVars == <<streak, fifth_started, fifth_returned>>

connVars == <<db_state, db_client, db_lock, shutdown, wpc, dpc, dattempt, dres>>

txnVars == <<xpc, xreg, xres, txn_state, xruns>>

oauthVars == <<opc, pkce_session, callback_data, callback_local, server_up, exchanged,
               oauth_sessions, oauth_logins, ores, callback_seen>>

orderVars == <<vpc, vreg, vres>>

mainVars == <<mpc, consecutive_db_failures, connection_failed_streak, requests>>

exitVars == <<critical, exit_code, cleanup_steps, tpc>>

coreVars == <<connVars, txnVars, oauthVars, orderVars, mainVars, exitVars>>

notAuth == <<envVars, groceryVars, cacheVars, breakerVars, blinkitVars, providerVars,
    coreVars>>
notAuthNotProviders == <<envVars, groceryVars, cacheVars, breakerVars, blinkitVars,
    coreVars>>
notProviders == <<clockVars, authVars, notAuthNotProviders>>
notGrocery == <<clockVars, envVars, authVars, cacheVars, breakerVars, blinkitVars, providerVars,
    coreVars>>
notCache == <<clockVars, envVars, authVars, groceryVars, breakerVars, blinkitVars, providerVars,
    coreVars>>
notBreaker == <<clockVars, envVars, authVars, groceryVars, cacheVars, blinkitVars, providerVars,
    coreVars>>
notBlinkit == <<clockVars, envVars, authVars, groceryVars, cacheVars, breakerVars, providerVars,
    coreVars>>
notClock == <<envVars, authVars, groceryVars, cacheVars, breakerVars, blinkitVars, providerVars,
    coreVars>>

notConn == <<clockVars, envVars, authVars, groceryVars, cacheVars, breakerVars,
             blinkitVars, providerVars, txnVars, oauthVars, orderVars, mainVars,
    exitVars>>
notTxn == <<envVars, authVars, groceryVars, cacheVars, breakerVars, blinkitVars,
            providerVars, connVars, oauthVars, orderVars, mainVars,
    exitVars>>
notOAuth == <<clockVars, envVars, authVars, groceryVars, cacheVars, breakerVars,
              blinkitVars, providerVars, connVars, txnVars, orderVars, mainVars,
    exitVars>>
notOrder == <<clockVars, envVars, authVars, groceryVars, cacheVars, breakerVars,
              blinkitVars, providerVars, connVars, txnVars, oauthVars, mainVars,
    exitVars>>
notMainNotBlinkit == <<clockVars, envVars, authVars, groceryVars, cacheVars, breakerVars,
                       providerVars, connVars, txnVars, oauthVars, orderVars>>
notMain == <<notMainNotBlinkit, blinkitVars>>

----------------------------------------------------------------------------
(* Bounds of the model *)

MaxPairs == 2
MaxSessions == 1
MaxTicks == 2
MaxVersion == 3
MaxLists == 1
MaxPayloads == 1
MaxInvalidations == 2
MaxFailures == 6
MaxServices == 2
MaxLogins == 2
MaxResets == 1
MaxRuns == 2
MaxOAuthLogins == 2
MaxRequests == 4
MaxNamedLists == 2
MaxRefreshPairs == 3

(* Program constants *)

JWT_ACCESS_TOKEN_EXPIRY == 900
JWT_REFRESH_TOKEN_EXPIRY == 2592000
JWT_RESET_TOKEN_EXPIRY == 3600

Clients == {"c1", "c2"}
AuthUsers == {"alice"}

\* The clock advances by one second or to one second short of a refresh-token
\* lifetime (which is past an access-token lifetime).
AuthTickSteps == {1, JWT_REFRESH_TOKEN_EXPIRY - 1}

EventTypes == {"tokens_issued", "token_refreshed", "token_revoked"}

NoRegs == [tok |-> 0, sid |-> 0, old_a |-> 0, old_r |-> 0, a |-> 0, r |-> 0,
           start_revoked |-> FALSE]

\* locals left behind by a finished call: the token it was given
Finished(regs) == [NoRegs EXCEPT !.tok = regs.tok, !.start_revoked = regs.start_revoked]

----------------------------------------------------------------------------
(* Token service *)

\* generate_access_token / generate_refresh_token: claims of a new token.
TokenClaims(sub, type, expiry) == [type |-> type, sub |-> sub, exp |-> now + expiry]

\* The time zones of the host: UTC, and one west of it (UTC-5).
UtcOffsets == {0, 0 - 18000}

\* datetime.utcnow().timestamp(): utcnow() is a naive datetime holding the UTC
\* wall time, and timestamp() reads a naive datetime as local time, so the
\* result is the POSIX time shifted by the local zone's offset.
utcnow_timestamp == now - utc_offset

TokenTypes == {"access", "refresh", "reset"}

\* validate_token: jwt.decode verifies the signature (the token is one this
\* service signed) and rejects exp <= now; then the type must be the expected
\* one and the explicit check rejects utcnow().timestamp() > exp.
validate_token(toks, jti, expected_type) ==
    /\ jti \in 1..Len(toks)
    /\ now < toks[jti].exp
    /\ toks[jti].type = expected_type
    /\ ~(utcnow_timestamp > toks[jti].exp)

\* decode_token_unsafe: the payload of any well-formed token, expired or not.
decode_token_unsafe(toks, jti) == jti \in 1..Len(toks)

\* jtis of the tokens that callers hold
Handed == UNION {{p.access, p.refresh} : p \in issued_pairs}

----------------------------------------------------------------------------
(* Session store queries *)

\* the lookup with the 'revoked' condition left out of the filter
FindByAccess_IgnoringRevoked(jti) ==
    {s \in auth_sessions : s.access_token_jti = jti}

\* find_one({'access_token_jti': jti, 'revoked': False})
FindByAccess(jti) ==
    {s \in auth_sessions : s.access_token_jti = jti /\ s.revoked = FALSE}

\* find_one({'refresh_token_jti': jti, 'revoked': False})
FindByRefresh(jti) ==
    {s \in auth_sessions : s.refresh_token_jti = jti /\ s.revoked = FALSE}

\* filter of revoke_token: {'$or': [{'access_token_jti': jti}, {'refresh_token_jti': jti}]}
FindByEither(jti) ==
    {s \in auth_sessions : s.access_token_jti = jti \/ s.refresh_token_jti = jti}

\* update_one({'_id': sid}, {'$set': fields}) on the collection
UpdateById(sid, set) ==
    {IF s.id = sid THEN set[s] ELSE s : s \in auth_sessions}

TokenPair(a, r) ==
    [access |-> a, refresh |-> r, live |-> FindByAccess(a) # {}]

AuditInsert(event) == [auth_audit_log EXCEPT ![event] = @ + 1]

\* number of callers that still have to sign a token pair
PendingPairs == Cardinality({c \in Clients : apc[c] = "rt_found"})

----------------------------------------------------------------------------
(* AuthenticationService._create_session, reached from register_user and    *)
(* authenticate_user once the provider has accepted the credentials.        *)

\* sign both tokens, validate them, insert the session row
CreateSessionInsertUpTo(c, u, max_pairs) ==
    /\ apc[c] = "idle"
    /\ Len(tokens) + 2 * (PendingPairs + 1) <= 2 * max_pairs
    /\ next_sid <= MaxSessions
    /\ LET a == Len(tokens) + 1
           r == Len(tokens) + 2
           toks == tokens \o <<TokenClaims(u, "access", JWT_ACCESS_TOKEN_EXPIRY),
                               TokenClaims(u, "refresh", JWT_REFRESH_TOKEN_EXPIRY)>>
           session_doc == [id |-> next_sid, user_id |-> u,
                           access_token_jti |-> a, refresh_token_jti |-> r,
                           expires_at |-> toks[r].exp, last_activity |-> now,
                           revoked |-> FALSE]
       IN /\ tokens' = toks
          /\ \E ok \in BOOLEAN :
               IF /\ validate_token(toks, a, "access")
                  /\ validate_token(toks, r, "refresh")
                  /\ ok
               THEN /\ auth_sessions' = auth_sessions \cup {session_doc}
                    /\ next_sid' = next_sid + 1
                    /\ apc' = [apc EXCEPT ![c] = "cs_inserted"]
                    /\ areg' = [areg EXCEPT ![c] = [NoRegs EXCEPT !.sid = next_sid,
                                                                  !.a = a, !.r = r]]
                    /\ UNCHANGED ares
               ELSE \* ValueError or a failed insert: the caller gets no TokenPair
                    /\ ares' = [ares EXCEPT ![c] = "null"]
                    /\ areg' = [areg EXCEPT ![c] = NoRegs]
                    /\ UNCHANGED <<auth_sessions, next_sid, apc>>
    /\ UNCHANGED <<auth_audit_log, issued_pairs, rotations, clockVars, notAuth>>

CreateSessionInsert(c, u) == CreateSessionInsertUpTo(c, u, MaxPairs)

\* insert the tokens_issued audit record and return the TokenPair
CreateSessionAudit(c) ==
    /\ apc[c] = "cs_inserted"
    /\ apc' = [apc EXCEPT ![c] = "idle"]
    /\ \E ok \in BOOLEAN :
         IF ok
         THEN /\ auth_audit_log' = AuditInsert("tokens_issued")
              /\ issued_pairs' = issued_pairs \cup {TokenPair(areg[c].a, areg[c].r)}
              /\ ares' = [ares EXCEPT ![c] = "pair"]
         ELSE /\ ares' = [ares EXCEPT ![c] = "null"]
              /\ UNCHANGED <<auth_audit_log, issued_pairs>>
    /\ areg' = [areg EXCEPT ![c] = Finished(areg[c])]
    /\ UNCHANGED <<auth_sessions, tokens, rotations, next_sid, clockVars, notAuth>>

----------------------------------------------------------------------------
(* AuthenticationService.refresh_token *)

\* validate the refresh token, look the session up
RefreshFindUpTo(c, tok, max_pairs) ==
    /\ apc[c] = "idle"
    /\ tok \in Handed
    /\ Len(tokens) + 2 * (PendingPairs + 1) <= 2 * max_pairs
    /\ IF validate_token(tokens, tok, "refresh") /\ FindByRefresh(tok) # {}
       THEN \E s \in FindByRefresh(tok) :
              /\ apc' = [apc EXCEPT ![c] = "rt_found"]
              /\ areg' = [areg EXCEPT ![c] =
                            [NoRegs EXCEPT !.tok = tok, !.sid = s.id,
                                           !.old_a = s.access_token_jti,
                                           !.old_r = tok,
                                           !.start_revoked =
                                               \E x \in FindByEither(tok) : x.revoked]]
              /\ UNCHANGED ares
       ELSE /\ ares' = [ares EXCEPT ![c] = "null"]
            /\ areg' = [areg EXCEPT ![c] =
                          [NoRegs EXCEPT !.tok = tok,
                                         !.start_revoked =
                                             \E x \in FindByEither(tok) : x.revoked]]
            /\ UNCHANGED apc
    /\ UNCHANGED <<auth_sessions, auth_audit_log, tokens, issued_pairs, rotations,
                   next_sid, clockVars, notAuth>>

RefreshFind(c, tok) == RefreshFindUpTo(c, tok, MaxPairs)

\* a rotation that replaces the access jti and leaves the refresh jti in place
RotateFields_AccessOnly(s, a, r) ==
    [s EXCEPT !.access_token_jti = a, !.last_activity = now]

\* the '$set' of the rotation
RotateFields(s, a, r) ==
    [s EXCEPT !.access_token_jti = a, !.refresh_token_jti = r, !.last_activity = now]

\* sign the new pair, rotate both jtis of the row with one update_one by _id
RefreshUpdate(c) ==
    /\ apc[c] = "rt_found"
    /\ LET a == Len(tokens) + 1
           r == Len(tokens) + 2
           sub == tokens[areg[c].tok].sub
           toks == tokens \o <<TokenClaims(sub, "access", JWT_ACCESS_TOKEN_EXPIRY),
                               TokenClaims(sub, "refresh", JWT_REFRESH_TOKEN_EXPIRY)>>
           Rot == [s \in auth_sessions |-> RotateFields(s, a, r)]
       IN /\ tokens' = toks
          /\ \E ok \in BOOLEAN :
               IF ok
               THEN /\ auth_sessions' = UpdateById(areg[c].sid, Rot)
                    /\ rotations' =
                         IF \E s \in auth_sessions : s.id = areg[c].sid
                         THEN rotations \cup {[old_access |-> areg[c].old_a,
                                               old_refresh |-> areg[c].old_r,
                                               new_access |-> a, new_refresh |-> r]}
                         ELSE rotations
                    /\ apc' = [apc EXCEPT ![c] = "rt_updated"]
                    /\ areg' = [areg EXCEPT ![c].a = a, ![c].r = r]
                    /\ UNCHANGED ares
               ELSE /\ apc' = [apc EXCEPT ![c] = "idle"]
                    /\ ares' = [ares EXCEPT ![c] = "null"]
                    /\ areg' = [areg EXCEPT ![c] = Finished(areg[c])]
                    /\ UNCHANGED <<auth_sessions, rotations>>
    /\ UNCHANGED <<auth_audit_log, issued_pairs, next_sid, clockVars, notAuth>>

\* insert the token_refreshed audit record and return the new TokenPair
RefreshAudit(c) ==
    /\ apc[c] = "rt_updated"
    /\ apc' = [apc EXCEPT ![c] = "idle"]
    /\ \E ok \in BOOLEAN :
         IF ok
         THEN /\ auth_audit_log' = AuditInsert("token_refreshed")
              /\ issued_pairs' = issued_pairs \cup {TokenPair(areg[c].a, areg[c].r)}
              /\ ares' = [ares EXCEPT ![c] = "pair"]
         ELSE /\ ares' = [ares EXCEPT ![c] = "null"]
              /\ UNCHANGED <<auth_audit_log, issued_pairs>>
    /\ areg' = [areg EXCEPT ![c] = Finished(areg[c])]
    /\ UNCHANGED <<auth_sessions, tokens, rotations, next_sid, clockVars, notAuth>>

----------------------------------------------------------------------------
(* AuthenticationService.validate_session *)

\* validate the access token, look the session up
ValidateFind(c, tok) ==
    /\ apc[c] = "idle"
    /\ tok \in Handed
    /\ IF validate_token(tokens, tok, "access") /\ FindByAccess(tok) # {}
       THEN \E s \in FindByAccess(tok) :
              /\ apc' = [apc EXCEPT ![c] = "vs_found"]
              /\ areg' = [areg EXCEPT ![c] =
                            [NoRegs EXCEPT !.tok = tok, !.sid = s.id,
                                           !.start_revoked =
                                               \E x \in FindByEither(tok) : x.revoked]]
              /\ UNCHANGED ares
       ELSE /\ ares' = [ares EXCEPT ![c] = "null"]
            /\ areg' = [areg EXCEPT ![c] =
                          [NoRegs EXCEPT !.tok = tok,
                                         !.start_revoked =
                                             \E x \in FindByEither(tok) : x.revoked]]
            /\ UNCHANGED apc
    /\ UNCHANGED <<auth_sessions, auth_audit_log, tokens, issued_pairs, rotations,
                   next_sid, clockVars, notAuth>>

TouchFields(s) == [s EXCEPT !.last_activity = now]

\* stamp last_activity and return the session info
ValidateTouch(c) ==
    /\ apc[c] = "vs_found"
    /\ apc' = [apc EXCEPT ![c] = "idle"]
    /\ \E ok \in BOOLEAN :
         IF ok
         THEN /\ auth_sessions' = UpdateById(areg[c].sid, [s \in auth_sessions |-> TouchFields(s)])
              /\ ares' = [ares EXCEPT ![c] = "info"]
         ELSE /\ ares' = [ares EXCEPT ![c] = "null"]
              /\ UNCHANGED auth_sessions
    /\ areg' = [areg EXCEPT ![c] = Finished(areg[c])]
    /\ UNCHANGED <<auth_audit_log, tokens, issued_pairs, rotations, next_sid,
                   clockVars, notAuth>>

----------------------------------------------------------------------------
(* AuthenticationService.revoke_token (logout is revoke_token) *)

RevokeFields(s) == [s EXCEPT !.revoked = TRUE]

\* decode the token unchecked, mark the matching session revoked
RevokeUpdate(c, tok) ==
    /\ apc[c] = "idle"
    /\ tok \in Handed
    /\ \E ok \in BOOLEAN :
         IF decode_token_unsafe(tokens, tok) /\ ok /\ FindByEither(tok) # {}
         THEN \E s \in FindByEither(tok) :
                /\ auth_sessions' = UpdateById(s.id, [x \in auth_sessions |-> RevokeFields(x)])
                /\ areg' = [areg EXCEPT ![c] = [NoRegs EXCEPT !.tok = tok]]
                /\ IF s.revoked = FALSE   \* modified_count > 0
                   THEN /\ apc' = [apc EXCEPT ![c] = "rv_updated"]
                        /\ UNCHANGED ares
                   ELSE /\ ares' = [ares EXCEPT ![c] = "false"]
                        /\ UNCHANGED apc
         ELSE /\ ares' = [ares EXCEPT ![c] = "false"]
              /\ areg' = [areg EXCEPT ![c] = [NoRegs EXCEPT !.tok = tok]]
              /\ UNCHANGED <<auth_sessions, apc>>
    /\ UNCHANGED <<auth_audit_log, tokens, issued_pairs, rotations, next_sid, clockVars, notAuth>>

\* insert the token_revoked audit record and return True
RevokeAudit(c) ==
    /\ apc[c] = "rv_updated"
    /\ apc' = [apc EXCEPT ![c] = "idle"]
    /\ \E ok \in BOOLEAN :
         IF ok
         THEN /\ auth_audit_log' = AuditInsert("token_revoked")
              /\ ares' = [ares EXCEPT ![c] = "true"]
         ELSE /\ ares' = [ares EXCEPT ![c] = "false"]
              /\ UNCHANGED auth_audit_log
    /\ areg' = [areg EXCEPT ![c] = Finished(areg[c])]
    /\ UNCHANGED <<auth_sessions, tokens, issued_pairs, rotations, next_sid,
                   clockVars, notAuth>>

----------------------------------------------------------------------------
(* The store's TTL index on expires_at (expireAfterSeconds = 0) *)

TtlReap ==
    /\ \E s \in auth_sessions :
         /\ s.expires_at <= now
         /\ auth_sessions' = auth_sessions \ {s}
    /\ UNCHANGED <<auth_audit_log, tokens, issued_pairs, rotations, next_sid, apc, areg,
                   ares, clockVars, notAuth>>

\* A call is bounded by the store client's socket timeout, so it does not span
\* a token lifetime: the long step is taken between calls only.
TickAuth ==
    /\ ticks < MaxTicks
    /\ \E d \in AuthTickSteps :
         /\ d > 1 => \A c \in Clients : apc[c] = "idle"
         /\ now' = now + d
    /\ ticks' = ticks + 1
    /\ UNCHANGED <<authVars, notAuth>>

----------------------------------------------------------------------------
(* Grocery lists: GroceryListManagerMixin over TransactionManager.          *)
(* A transaction reads the snapshot of its first operation and buffers its *)
(* writes until commit; a write to a document that another open            *)
(* transaction has written fails with a write conflict, which the store    *)
(* labels TransientTransactionError.                                       *)

max_retries == 3

Editors == {"A", "B"}
ListNames == {"Quick list", "Weekly"}
ItemSets == {"milk", "eggs"}
None == -1

NoWrite == [kind |-> "none", id |-> 0, doc |-> 0]

NoEdit == [original_name |-> "", is_new_list |-> FALSE, expected_version |-> None,
           new_name |-> "", all_items |-> "", attempt |-> 0, direct |-> FALSE,
           write |-> NoWrite]

NoResult == [outcome |-> "none", cause |-> "none", expected |-> None,
             stored_before |-> None, stored_after |-> None, target |-> 0]

\* the committed version of a document
StoredVersion(lists, id) ==
    IF \E l \in lists : l.id = id
    THEN (CHOOSE l \in lists : l.id = id).version
    ELSE None

\* the document another open transaction has written, if any
Locked(id) ==
    \E e \in Editors : greg[e].write.kind = "update" /\ greg[e].write.id = id

\* the filter of the update with the version left out
LockingQuery_NoVersion(l, username, list_name, expected_version) ==
    l.username = username /\ l.name = list_name

\* _update_grocery_list_with_locking: the filter of the update
LockingQuery(l, username, list_name, expected_version) ==
    /\ l.username = username
    /\ l.name = list_name
    /\ expected_version # None => l.version = expected_version

\* _update_grocery_list_with_locking: updates["version"] = (expected_version or 0) + 1
NextVersion(expected_version) ==
    (IF expected_version = None THEN 0 ELSE expected_version) + 1

\* execute_in_transaction: what the caller sees when perform_update raises.
\* Only pymongo's ConnectionFailure and labelled OperationFailure are retried;
\* every other exception, VersionConflictError included, is caught by
\* "except Exception" and raised again as a plain TransactionError.
\* A write conflict is retried, and after max_retries attempts the caller
\* gets TransactionError as well.
Surfaced(raised) ==
    CASE raised = "WriteConflict" -> "TransactionError"
      [] raised \in {"ValueError", "VersionConflictError"} -> "TransactionError"
      [] OTHER -> raised

\* the result of a finished save, as its caller sees it
Failed(e, raised, before, target) ==
    [outcome |-> Surfaced(raised), cause |-> raised,
     expected |-> greg[e].expected_version, stored_before |-> before,
     stored_after |-> before, target |-> target]

\* where the caller goes when the save is over: the editing loop ends on
\* success and goes on after a failure
AfterSave(e, success) ==
    IF greg[e].direct \/ success THEN "idle" ELSE "editing"

\* _edit_existing_grocery_list: load a saved list into the editor
GEdit(e) ==
    /\ gpc[e] = "idle"
    /\ \E gl \in grocery_lists :
         greg' = [greg EXCEPT ![e] = [NoEdit EXCEPT !.original_name = gl.name,
                                                   !.expected_version = gl.version]]
    /\ gpc' = [gpc EXCEPT ![e] = "editing"]
    /\ UNCHANGED <<grocery_lists, next_list_id, gres>>
    /\ UNCHANGED notGrocery

\* generate_grocery_list: start a new list, while fewer than max_lists exist
GNewUpTo(e, max_lists) ==
    /\ gpc[e] = "idle"
    /\ next_list_id + Cardinality({x \in Editors : greg[x].is_new_list}) <= max_lists
    /\ greg' = [greg EXCEPT ![e] = [NoEdit EXCEPT !.original_name = "Quick list",
                                                 !.is_new_list = TRUE]]
    /\ gpc' = [gpc EXCEPT ![e] = "editing"]
    /\ UNCHANGED <<grocery_lists, next_list_id, gres>>
    /\ UNCHANGED notGrocery

GNew(e) == GNewUpTo(e, MaxLists)

\* _continue_grocery_list_editing, choice 0
GExit(e) ==
    /\ gpc[e] = "editing"
    /\ gpc' = [gpc EXCEPT ![e] = "idle"]
    /\ greg' = [greg EXCEPT ![e] = NoEdit]
    /\ UNCHANGED <<grocery_lists, next_list_id, gres>>
    /\ UNCHANGED notGrocery

\* _update_existing_grocery_list_internal up to execute_in_transaction
GSave(e) ==
    /\ gpc[e] = "editing"
    /\ greg[e].is_new_list \/ greg[e].expected_version < MaxVersion
    /\ \E items \in ItemSets, name \in ListNames :
         greg' = [greg EXCEPT ![e].all_items = items, ![e].new_name = name,
                              ![e].attempt = 0]
    /\ gpc' = [gpc EXCEPT ![e] = IF greg[e].is_new_list THEN "txn_new" ELSE "txn"]
    /\ gres' = [gres EXCEPT ![e] = NoResult]
    /\ UNCHANGED <<grocery_lists, next_list_id>>
    /\ UNCHANGED notGrocery

\* a call of _update_grocery_list_with_locking that passes no expected_version
GSaveUnversioned(e) ==
    /\ gpc[e] = "idle"
    /\ \E gl \in grocery_lists, items \in ItemSets :
         greg' = [greg EXCEPT ![e] = [NoEdit EXCEPT !.original_name = gl.name,
                                                   !.new_name = gl.name,
                                                   !.all_items = items,
                                                   !.direct = TRUE]]
    /\ gpc' = [gpc EXCEPT ![e] = "txn"]
    /\ gres' = [gres EXCEPT ![e] = NoResult]
    /\ UNCHANGED <<grocery_lists, next_list_id>>
    /\ UNCHANGED notGrocery

\* one attempt of perform_update on an existing list: txn.update_one and, when
\* nothing matched, txn.find_one in the same snapshot
GTxnUpdate(e) ==
    /\ gpc[e] = "txn"
    /\ LET r == greg[e]
           matching == {l \in grocery_lists :
                          LockingQuery(l, "alice", r.original_name, r.expected_version)}
           named == {l \in grocery_lists :
                          l.username = "alice" /\ l.name = r.original_name}
       IN IF matching # {}
          THEN \E l \in matching :
                 IF Locked(l.id)
                 THEN \* write conflict: the attempt is aborted and retried
                      IF r.attempt + 1 < max_retries
                      THEN /\ greg' = [greg EXCEPT ![e].attempt = r.attempt + 1]
                           /\ UNCHANGED <<gpc, gres>>
                      ELSE /\ gres' = [gres EXCEPT ![e] =
                                         Failed(e, "WriteConflict", l.version, l.id)]
                           /\ gpc' = [gpc EXCEPT ![e] = AfterSave(e, FALSE)]
                           /\ greg' = [greg EXCEPT ![e].attempt = 0]
                 ELSE /\ greg' = [greg EXCEPT ![e].write =
                                    [kind |-> "update", id |-> l.id,
                                     doc |-> [l EXCEPT !.name = r.new_name,
                                                       !.items = r.all_items,
                                                       !.version =
                                                          NextVersion(r.expected_version)]]]
                      /\ gpc' = [gpc EXCEPT ![e] = "written"]
                      /\ gres' = [gres EXCEPT ![e] =
                                    [NoResult EXCEPT !.expected = r.expected_version,
                                                     !.stored_before = l.version,
                                                     !.target = l.id]]
          ELSE /\ IF r.expected_version # None /\ named # {}
                  THEN \E exists \in named :
                         gres' = [gres EXCEPT ![e] =
                                    Failed(e, "VersionConflictError", exists.version,
                                           exists.id)]
                  ELSE gres' = [gres EXCEPT ![e] = Failed(e, "ValueError", None, 0)]
               /\ gpc' = [gpc EXCEPT ![e] = AfterSave(e, FALSE)]
               /\ greg' = [greg EXCEPT ![e].attempt = 0]
    /\ UNCHANGED <<grocery_lists, next_list_id>>
    /\ UNCHANGED notGrocery

\* perform_update on a new list: txn.find_one for the name
GTxnFindNew(e) ==
    /\ gpc[e] = "txn_new"
    /\ IF \E l \in grocery_lists : l.username = "alice" /\ l.name = greg[e].new_name
       THEN /\ gres' = [gres EXCEPT ![e] = Failed(e, "ValueError", None, 0)]
            /\ gpc' = [gpc EXCEPT ![e] = AfterSave(e, FALSE)]
       ELSE /\ gpc' = [gpc EXCEPT ![e] = "checked"]
            /\ UNCHANGED gres
    /\ UNCHANGED <<grocery_lists, next_list_id, greg>>
    /\ UNCHANGED notGrocery

\* perform_update on a new list: txn.insert_one
GTxnInsert(e) ==
    /\ gpc[e] = "checked"
    /\ greg' = [greg EXCEPT ![e].write =
                  [kind |-> "insert", id |-> 0,
                   doc |-> [id |-> 0, username |-> "alice", name |-> greg[e].new_name,
                            items |-> greg[e].all_items, version |-> 0]]]
    /\ gpc' = [gpc EXCEPT ![e] = "written"]
    /\ UNCHANGED <<grocery_lists, next_list_id, gres>>
    /\ UNCHANGED notGrocery

\* txn.commit: the buffered write becomes visible
GTxnCommit(e) ==
    /\ gpc[e] = "written"
    /\ LET w == greg[e].write
       IN IF w.kind = "update"
          THEN /\ grocery_lists' =
                    {IF l.id = w.id THEN w.doc ELSE l : l \in grocery_lists}
               /\ gres' = [gres EXCEPT ![e].outcome = "updated",
                                       ![e].stored_after = StoredVersion(grocery_lists', w.id)]
               /\ UNCHANGED next_list_id
          ELSE /\ grocery_lists' = grocery_lists \cup {[w.doc EXCEPT !.id = next_list_id]}
               /\ next_list_id' = next_list_id + 1
               /\ gres' = [gres EXCEPT ![e].outcome = "inserted",
                                       ![e].stored_after = 0,
                                       ![e].target = next_list_id]
    /\ gpc' = [gpc EXCEPT ![e] = AfterSave(e, TRUE)]
    /\ greg' = [greg EXCEPT ![e] = NoEdit]
    /\ UNCHANGED notGrocery

\* _delete_grocery_list: delete_one by _id, outside any transaction (it waits
\* for an open transaction that has written the document)
GDelete(e) ==
    /\ gpc[e] = "idle"
    /\ \E gl \in grocery_lists :
         /\ ~Locked(gl.id)
         /\ grocery_lists' = grocery_lists \ {gl}
    /\ UNCHANGED <<next_list_id, gpc, greg, gres>>
    /\ UNCHANGED notGrocery

NextGrocery ==
    \/ \E e \in Editors : GEdit(e)
    \/ \E e \in Editors : GNew(e)
    \/ \E e \in Editors : GExit(e)
    \/ \E e \in Editors : GSave(e)
    \/ \E e \in Editors : GTxnUpdate(e)
    \/ \E e \in Editors : GTxnFindNew(e)
    \/ \E e \in Editors : GTxnInsert(e)
    \/ \E e \in Editors : GTxnCommit(e)
    \/ \E e \in Editors : GDelete(e)

\* the callers above plus a caller that passes no expected_version, which the
\* signature of _update_grocery_list_with_locking allows (its default)
NextGroceryApi ==
    \/ NextGrocery
    \/ \E e \in Editors : GSaveUnversioned(e)

\* one user at the menu, one operation after the other, with room for
\* MaxNamedLists lists
NextGroceryNames ==
    \/ GEdit("A")
    \/ GNewUpTo("A", MaxNamedLists)
    \/ GExit("A")
    \/ GSave("A")
    \/ GTxnUpdate("A")
    \/ GTxnFindNew("A")
    \/ GTxnInsert("A")
    \/ GTxnCommit("A")
    \/ GDelete("A")

----------------------------------------------------------------------------
(* Profile-aware cache: ProfileAwareCacheManager.  The manager takes no     *)
(* lock; a call is preempted at its file operations and at its log writes. *)

ttl_hours == 12

CacheThreads == {"t1", "t2"}
NoProfile == [allergies |-> {}, diet_types |-> {}, cultural_restrictions |-> {},
              household |-> 0]
Profiles ==
    {[allergies |-> {"nuts"}, diet_types |-> {"vegan"}, cultural_restrictions |-> {},
      household |-> 2]}
ImageHashes == {"0xAB"}
Modes == {"recipes"}

\* the clock advances by a second or by the time-to-live
CacheTickSteps == {1, ttl_hours * 3600}

\* generate_profile_hash: the digest of the sorted allergies, diet types and
\* cultural restrictions (here the fields themselves: the digest is taken to
\* be free of collisions); the other profile fields do not enter it
generate_profile_hash(user_profile) ==
    <<user_profile.allergies, user_profile.diet_types,
      user_profile.cultural_restrictions>>

\* get_cache_key
get_cache_key(image_hash, mode, user_profile) ==
    IF user_profile # NoProfile
    THEN <<image_hash, mode, generate_profile_hash(user_profile)>>
    ELSE <<image_hash, mode>>

CacheKeys ==
    {get_cache_key(i, m, p) : i \in ImageHashes, m \in Modes,
                              p \in Profiles \cup {NoProfile}}

NoFile == [cached_at |-> -1, response |-> 0, profile_version |-> <<>>,
           invalidated |-> FALSE]

NoCall == [key |-> <<>>, user_profile |-> NoProfile, data |-> NoFile, todo |-> {},
           count |-> 0, start_done |-> 0, entry_ok |-> FALSE]

NoLookup == [kind |-> "none", response |-> 0, tier |-> "none", entry_ok |-> FALSE,
             with_profile |-> FALSE, start_done |-> 0]

\* age > timedelta(hours=ttl_hours)
Expired(cached_at) == now - cached_at > ttl_hours * 3600

\* the profile check of a lookup: current_profile_hash != cached_profile_hash
ProfileMismatch(user_profile, data) ==
    /\ user_profile # NoProfile
    /\ generate_profile_hash(user_profile) # data.profile_version

\* the entry a hit is served from: fingerprint, age and invalidated flag
EntryOk(user_profile, response) ==
    /\ user_profile # NoProfile =>
           payload_meta[response].profile_version = generate_profile_hash(user_profile)
    /\ now - payload_meta[response].cached_at <= ttl_hours * 3600
    /\ response \notin invalidated_payloads

Miss(t) == [NoLookup EXCEPT !.kind = "miss"]

\* get_cached_response: the memory tier, then os.path.exists
LookupStart(t) ==
    /\ cpc[t] = "idle"
    /\ \E i \in ImageHashes, m \in Modes, p \in Profiles \cup {NoProfile} :
         LET key == get_cache_key(i, m, p)
             call == [NoCall EXCEPT !.key = key, !.user_profile = p,
                                    !.start_done = inval_done]
         IN /\ creg' = [creg EXCEPT ![t] =
                          IF memory_cache[key] = 0 /\ cache_files[key] # NoFile
                          THEN call ELSE NoCall]
            /\ IF memory_cache[key] # 0
               THEN /\ cres' = [cres EXCEPT ![t] =
                                  [kind |-> "hit", response |-> memory_cache[key],
                                   tier |-> "memory",
                                   entry_ok |-> EntryOk(p, memory_cache[key]),
                                   with_profile |-> p # NoProfile,
                                   start_done |-> inval_done]]
                    /\ UNCHANGED cpc
               ELSE IF cache_files[key] = NoFile
                    THEN /\ cres' = [cres EXCEPT ![t] = Miss(t)]
                         /\ UNCHANGED cpc
                    ELSE /\ cpc' = [cpc EXCEPT ![t] = "lk_read"]
                         /\ cres' = [cres EXCEPT ![t] = NoLookup]
    /\ UNCHANGED <<cache_files, memory_cache, payload_meta, invalidated_payloads,
                   inval_started, inval_done>>
    /\ UNCHANGED notCache

\* get_cached_response: read the file and check invalidated, age and profile
LookupRead(t) ==
    /\ cpc[t] = "lk_read"
    /\ LET data == cache_files[creg[t].key]
       IN IF data = NoFile
          THEN \* the file is gone: the exception is logged, the result is None
               /\ cres' = [cres EXCEPT ![t] = Miss(t)]
               /\ cpc' = [cpc EXCEPT ![t] = "idle"]
               /\ creg' = [creg EXCEPT ![t] = NoCall]
          ELSE IF \/ data.invalidated
                  \/ Expired(data.cached_at)
                  \/ ProfileMismatch(creg[t].user_profile, data)
               THEN /\ cpc' = [cpc EXCEPT ![t] = "lk_remove"]
                    /\ UNCHANGED <<creg, cres>>
               ELSE /\ cpc' = [cpc EXCEPT ![t] = "lk_store"]
                    /\ creg' = [creg EXCEPT ![t].data = data,
                                            ![t].entry_ok =
                                               EntryOk(creg[t].user_profile, data.response)]
                    /\ UNCHANGED cres
    /\ UNCHANGED <<cache_files, memory_cache, payload_meta, invalidated_payloads,
                   inval_started, inval_done>>
    /\ UNCHANGED notCache

\* get_cached_response: os.remove of a rejected entry, result None
LookupRemove(t) ==
    /\ cpc[t] = "lk_remove"
    /\ cache_files' = [cache_files EXCEPT ![creg[t].key] = NoFile]
    /\ cres' = [cres EXCEPT ![t] = Miss(t)]
    /\ cpc' = [cpc EXCEPT ![t] = "idle"]
    /\ creg' = [creg EXCEPT ![t] = NoCall]
    /\ UNCHANGED <<memory_cache, payload_meta, invalidated_payloads, inval_started,
                   inval_done>>
    /\ UNCHANGED notCache

\* get_cached_response: rehydrate the memory tier and return the response
LookupStore(t) ==
    /\ cpc[t] = "lk_store"
    /\ memory_cache' = [memory_cache EXCEPT ![creg[t].key] = creg[t].data.response]
    /\ cres' = [cres EXCEPT ![t] =
                  [kind |-> "hit", response |-> creg[t].data.response, tier |-> "disk",
                   entry_ok |-> creg[t].entry_ok,
                   with_profile |-> creg[t].user_profile # NoProfile,
                   start_done |-> creg[t].start_done]]
    /\ cpc' = [cpc EXCEPT ![t] = "idle"]
    /\ creg' = [creg EXCEPT ![t] = NoCall]
    /\ UNCHANGED <<cache_files, payload_meta, invalidated_payloads, inval_started,
                   inval_done>>
    /\ UNCHANGED notCache

\* cache_response: the memory tier and the entry to write
InsertMemory(t) ==
    /\ cpc[t] = "idle"
    /\ Len(payload_meta) < MaxPayloads
    /\ \E i \in ImageHashes, m \in Modes, p \in Profiles \cup {NoProfile} :
         LET key == get_cache_key(i, m, p)
             response == Len(payload_meta) + 1
             cache_data == [cached_at |-> now, response |-> response,
                            profile_version |->
                                IF p # NoProfile THEN generate_profile_hash(p) ELSE <<>>,
                            invalidated |-> FALSE]
         IN /\ memory_cache' = [memory_cache EXCEPT ![key] = response]
            /\ payload_meta' = Append(payload_meta,
                                      [cached_at |-> now,
                                       profile_version |-> cache_data.profile_version,
                                       cached_before |-> -1])
            /\ creg' = [creg EXCEPT ![t] = [NoCall EXCEPT !.key = key,
                                                          !.user_profile = p,
                                                          !.data = cache_data]]
    /\ cpc' = [cpc EXCEPT ![t] = "ins_disk"]
    /\ UNCHANGED <<cache_files, invalidated_payloads, inval_started, inval_done, cres>>
    /\ UNCHANGED notCache

\* cache_response: write the file and return True
InsertDisk(t) ==
    /\ cpc[t] = "ins_disk"
    /\ cache_files' = [cache_files EXCEPT ![creg[t].key] = creg[t].data]
    /\ payload_meta' = [payload_meta EXCEPT ![creg[t].data.response].cached_before =
                                                inval_started + 1]
    /\ cpc' = [cpc EXCEPT ![t] = "idle"]
    /\ creg' = [creg EXCEPT ![t] = NoCall]
    /\ UNCHANGED <<memory_cache, invalidated_payloads, inval_started, inval_done, cres>>
    /\ UNCHANGED notCache

\* invalidate_cache_for_user: os.listdir (the username is not used)
InvalidateList(t) ==
    /\ cpc[t] = "idle"
    /\ inval_started < MaxInvalidations
    /\ inval_started' = inval_started + 1
    /\ creg' = [creg EXCEPT ![t] =
                  [NoCall EXCEPT !.todo = {k \in CacheKeys : cache_files[k] # NoFile}]]
    /\ cpc' = [cpc EXCEPT ![t] = "inv_loop"]
    /\ UNCHANGED <<cache_files, memory_cache, payload_meta, invalidated_payloads,
                   inval_done, cres>>
    /\ UNCHANGED notCache

\* invalidate_cache_for_user: read the next file
InvalidateRead(t) ==
    /\ cpc[t] = "inv_loop"
    /\ \E k \in creg[t].todo :
         IF cache_files[k] = NoFile
         THEN \* the file is gone: the error is logged, the loop goes on
              /\ creg' = [creg EXCEPT ![t].todo = @ \ {k}]
              /\ UNCHANGED cpc
         ELSE /\ creg' = [creg EXCEPT ![t].key = k, ![t].data = cache_files[k]]
              /\ cpc' = [cpc EXCEPT ![t] = "inv_write"]
    /\ UNCHANGED <<cache_files, memory_cache, payload_meta, invalidated_payloads,
                   inval_started, inval_done, cres>>
    /\ UNCHANGED notCache

\* invalidate_cache_for_user: write the file back with invalidated = True
InvalidateWrite(t) ==
    /\ cpc[t] = "inv_write"
    /\ cache_files' = [cache_files EXCEPT ![creg[t].key] =
                          [creg[t].data EXCEPT !.invalidated = TRUE]]
    /\ invalidated_payloads' = invalidated_payloads \cup {creg[t].data.response}
    /\ creg' = [creg EXCEPT ![t].todo = @ \ {creg[t].key}, ![t].count = @ + 1,
                            ![t].data = NoFile, ![t].key = <<>>]
    /\ cpc' = [cpc EXCEPT ![t] = "inv_loop"]
    /\ UNCHANGED <<memory_cache, payload_meta, inval_started, inval_done, cres>>
    /\ UNCHANGED notCache

\* invalidate_cache_for_user: clear the memory tier and return the count
InvalidateClear(t) ==
    /\ cpc[t] = "inv_loop"
    /\ creg[t].todo = {}
    /\ memory_cache' = [k \in CacheKeys |-> 0]
    /\ inval_done' = inval_done + 1
    /\ cres' = [cres EXCEPT ![t] = [NoLookup EXCEPT !.kind = "invalidated"]]
    /\ creg' = [creg EXCEPT ![t] = NoCall]
    /\ cpc' = [cpc EXCEPT ![t] = "idle"]
    /\ UNCHANGED <<cache_files, payload_meta, invalidated_payloads, inval_started>>
    /\ UNCHANGED notCache

\* cleanup_expired: os.listdir
CleanupList(t) ==
    /\ cpc[t] = "idle"
    /\ \E k \in CacheKeys : cache_files[k] # NoFile
    /\ creg' = [creg EXCEPT ![t] =
                  [NoCall EXCEPT !.todo = {k \in CacheKeys : cache_files[k] # NoFile}]]
    /\ cpc' = [cpc EXCEPT ![t] = "cl_loop"]
    /\ UNCHANGED <<cache_files, memory_cache, payload_meta, invalidated_payloads,
                   inval_started, inval_done, cres>>
    /\ UNCHANGED notCache

\* cleanup_expired: read the next file and remove it when it is invalidated or
\* expired; after the last file, return
CleanupFile(t) ==
    /\ cpc[t] = "cl_loop"
    /\ \E k \in creg[t].todo :
         /\ cache_files' =
              IF /\ cache_files[k] # NoFile
                 /\ cache_files[k].invalidated \/ Expired(cache_files[k].cached_at)
              THEN [cache_files EXCEPT ![k] = NoFile]
              ELSE cache_files
         /\ creg' = [creg EXCEPT ![t] =
                       IF creg[t].todo = {k} THEN NoCall
                       ELSE [creg[t] EXCEPT !.todo = @ \ {k}]]
         /\ cpc' = [cpc EXCEPT ![t] = IF creg[t].todo = {k} THEN "idle" ELSE "cl_loop"]
    /\ UNCHANGED <<memory_cache, payload_meta, invalidated_payloads, inval_started,
                   inval_done, cres>>
    /\ UNCHANGED notCache

TickCache ==
    /\ ticks < MaxTicks
    /\ \E d \in CacheTickSteps :
         /\ d > 1 => \A t \in CacheThreads : cpc[t] = "idle"
         /\ now' = now + d
    /\ ticks' = ticks + 1
    /\ UNCHANGED notClock

NextCache ==
    \/ \E t \in CacheThreads : LookupStart(t)
    \/ \E t \in CacheThreads : LookupRead(t)
    \/ \E t \in CacheThreads : LookupRemove(t)
    \/ \E t \in CacheThreads : LookupStore(t)
    \/ \E t \in CacheThreads : InsertMemory(t)
    \/ \E t \in CacheThreads : InsertDisk(t)
    \/ \E t \in CacheThreads : InvalidateList(t)
    \/ \E t \in CacheThreads : InvalidateRead(t)
    \/ \E t \in CacheThreads : InvalidateWrite(t)
    \/ \E t \in CacheThreads : InvalidateClear(t)
    \/ \E t \in CacheThreads : CleanupList(t)
    \/ \E t \in CacheThreads : CleanupFile(t)
    \/ TickCache

----------------------------------------------------------------------------
(* Circuit breaker of the camera service: CircuitBreaker.  The breaker      *)
(* takes no lock; a call is preempted while the wrapped request is in       *)
(* flight.                                                                  *)

failure_threshold == 5
timeout == 60

Callers == {"k1", "k2"}

\* the clock advances by a second, to the end of the cooldown, or by a day
BreakerTickSteps == {1, timeout - 1, 86400}

NoEntry == [due |-> FALSE, invoked |-> FALSE, found |-> "none", late |-> FALSE]

\* timedelta.seconds: the seconds field of the difference, days left out
seconds(delta) == delta % 86400

\* the threshold test of a breaker that opens one failure late
Trips_OneLate(count) == count > failure_threshold

\* self.failure_count >= self.failure_threshold
Trips(count) == count >= failure_threshold

\* the cooldown test made on a call that finds the breaker open
CooldownOver ==
    /\ last_failure_time # -1
    /\ seconds(now - last_failure_time) >= timeout

\* the breaker has seen failure_threshold failures in a row and the cooldown
\* since the last of them has not elapsed
ShortCircuitDue ==
    /\ consecutive_failures >= failure_threshold
    /\ now - last_failure_time < timeout

\* the breaker is open and the last failure is at least the cooldown ago
ProbeDue ==
    /\ cb_state = "OPEN"
    /\ last_failure_time # -1
    /\ now - last_failure_time >= timeout

\* CircuitBreaker.call up to the wrapped request: with the breaker open and
\* the cooldown running the call raises, otherwise the request is sent
BreakerCall(k) ==
    /\ bpc[k] = "idle"
    /\ IF cb_state = "OPEN" /\ ~CooldownOver
       THEN /\ bres' = [bres EXCEPT ![k] = "CircuitOpen"]
            /\ bentry' = [bentry EXCEPT ![k] = [due |-> ShortCircuitDue,
                                                invoked |-> FALSE,
                                                found |-> cb_state,
                                                late |-> ProbeDue]]
            /\ UNCHANGED <<cb_state, bpc>>
       ELSE /\ cb_state' = IF cb_state = "OPEN" THEN "HALF_OPEN" ELSE cb_state
            /\ bpc' = [bpc EXCEPT ![k] = "invoking"]
            /\ bres' = [bres EXCEPT ![k] = "none"]
            /\ bentry' = [bentry EXCEPT ![k] = [due |-> ShortCircuitDue,
                                                invoked |-> TRUE,
                                                found |-> cb_state,
                                                late |-> ProbeDue]]
    /\ UNCHANGED <<failure_count, last_failure_time, consecutive_failures>>
    /\ UNCHANGED notBreaker

\* CircuitBreaker.call: the wrapped request returned
BreakerSuccess(k) ==
    /\ bpc[k] = "invoking"
    /\ cb_state' = "CLOSED"
    /\ failure_count' = 0
    /\ consecutive_failures' = 0
    /\ bres' = [bres EXCEPT ![k] = "ok"]
    /\ bpc' = [bpc EXCEPT ![k] = "idle"]
    /\ UNCHANGED <<last_failure_time, bentry>>
    /\ UNCHANGED notBreaker

\* CircuitBreaker.call: the wrapped request raised
BreakerFailure(k) ==
    /\ bpc[k] = "invoking"
    /\ failure_count < MaxFailures
    /\ failure_count' = failure_count + 1
    /\ consecutive_failures' = consecutive_failures + 1
    /\ last_failure_time' = now
    /\ cb_state' = IF Trips(failure_count + 1) THEN "OPEN" ELSE cb_state
    /\ bres' = [bres EXCEPT ![k] = "failed"]
    /\ bpc' = [bpc EXCEPT ![k] = "idle"]
    /\ UNCHANGED bentry
    /\ UNCHANGED notBreaker

\* CircuitBreaker.reset, called when the server URL is changed
BreakerReset ==
    /\ \A k \in Callers : bpc[k] = "idle"
    /\ failure_count > 0
    /\ cb_state' = "CLOSED"
    /\ failure_count' = 0
    /\ consecutive_failures' = 0
    /\ last_failure_time' = -1
    /\ UNCHANGED <<bpc, bres, bentry>>
    /\ UNCHANGED notBreaker

TickBreaker ==
    /\ ticks < MaxTicks
    /\ \E d \in BreakerTickSteps : now' = now + d
    /\ ticks' = ticks + 1
    /\ UNCHANGED notClock

NextBreaker ==
    \/ \E k \in Callers : BreakerCall(k)
    \/ \E k \in Callers : BreakerSuccess(k)
    \/ \E k \in Callers : BreakerFailure(k)
    \/ BreakerReset
    \/ TickBreaker

----------------------------------------------------------------------------
(* Per-user Blinkit services: the registry _user_services behind            *)
(* _service_lock, and the on-disk store of BlinkitSessionManager.  The      *)
(* username of the application is the user's email.                         *)

BThreads == {"m1", "m2"}

NoUser == <<>>
Usernames ==
    {<<"j", "d", "@", "x">>, <<"J", ".", "d", "@", "x">>}

\* str.isalnum over the characters that occur
Alnum == {"j", "J", "d", "x"}

\* str.lower
lower(c) == IF c = "J" THEN "j" ELSE c

\* c.isalnum() or c in ('_', '-')
Kept(c) == c \in Alnum \cup {"_", "-"}

\* "".join(c for c in username if c.isalnum() or c in ('_', '-'))
Sanitized(str) == SelectSeq(str, Kept)

\* _get_user_session_dir: sessions_dir / safe_username
get_user_session_dir(username) ==
    LET kept == Sanitized(username)
    IN <<"blinkit_sessions", [i \in 1..Len(kept) |-> lower(kept[i])]>>

\* get_auth_state_path
get_auth_state_path(username) ==
    get_user_session_dir(username) \o <<"auth_state.json">>

SessionDirs == {get_user_session_dir(u) : u \in Usernames}

NoDir == [dir |-> FALSE, metadata |-> FALSE, auth_state |-> FALSE]

\* session_exists: metadata_path.exists() and auth_state_path.exists()
session_exists(username) ==
    /\ session_files[get_user_session_dir(username)].metadata
    /\ session_files[get_user_session_dir(username)].auth_state

NoBCall == [username |-> NoUser, svc |-> 0, logout |-> FALSE, popped |-> FALSE]
NoBRes == [op |-> "none", username |-> NoUser, svc |-> 0, ok |-> FALSE,
           retired |-> FALSE, exists |-> FALSE]

\* the registry after a Clear that leaves the entry in place
Popped_Kept(registry, username) == registry

\* _user_services.pop(username)
Popped(registry, username) == [registry EXCEPT ![username] = 0]

\* get_blinkit_service under _service_lock: the registered service when it is
\* initialized, otherwise a new one in its place; reset is the caller's
\* service._initialized = False that follows in order_from_saved_list
GetUnderLock(t, username, reset) ==
    LET cur == user_services[username]
        reuse == cur # 0 /\ services[cur].initialized
        svc == IF reuse THEN cur ELSE Len(services) + 1
        made == IF reuse THEN services
                ELSE Append(services, [username |-> username, initialized |-> FALSE,
                                       closed |-> FALSE])
    IN /\ service_lock = "none"
       /\ reuse \/ Len(services) < MaxServices
       /\ user_services' = [user_services EXCEPT ![username] = svc]
       /\ services' = IF reset THEN [made EXCEPT ![svc].initialized = FALSE] ELSE made
       /\ kheld' = [kheld EXCEPT ![t] = svc]
       /\ got' = [got EXCEPT ![username] = @ \cup {svc}]
       /\ kres' = [kres EXCEPT ![t] = [op |-> "get", username |-> username,
                                       svc |-> svc, ok |-> TRUE,
                                       retired |-> svc \in retired[username],
                                       exists |-> session_exists(username)]]

\* get_blinkit_service(username) for the logged-in user
GetService(t) ==
    /\ kpc[t] = "idle"
    /\ app_user # NoUser
    /\ GetUnderLock(t, app_user, FALSE)
    /\ UNCHANGED <<session_files, service_lock, kpc, kreg, app_user, logged_out,
                   handed_paths, retired, store_cleared, app_logins>>
    /\ UNCHANGED notBlinkit

\* order_from_saved_list: get_blinkit_service, then service._initialized = False
OrderGetService(t) ==
    /\ kpc[t] = "idle"
    /\ app_user # NoUser
    /\ GetUnderLock(t, app_user, TRUE)
    /\ UNCHANGED <<session_files, service_lock, kpc, kreg, app_user, logged_out,
                   handed_paths, retired, store_cleared, app_logins>>
    /\ UNCHANGED notBlinkit

\* BlinkitIntegrationService.initialize of the service the thread holds: the
\* per-user path is taken from the session manager, the session is created
\* when there is none, and the service is marked initialized
InitializeService(t) ==
    /\ kpc[t] = "idle"
    /\ kheld[t] # 0
    /\ ~services[kheld[t]].initialized
    /\ LET username == services[kheld[t]].username
           dir == get_user_session_dir(username)
       IN /\ handed_paths' = handed_paths \cup
                 {[username |-> username, path |-> get_auth_state_path(username)]}
          /\ session_files' =
                 IF session_exists(username) THEN session_files
                 ELSE [session_files EXCEPT ![dir].dir = TRUE, ![dir].metadata = TRUE]
          /\ store_cleared' =
                 IF session_exists(username) THEN store_cleared
                 ELSE [store_cleared EXCEPT ![dir] = FALSE]
    /\ services' = [services EXCEPT ![kheld[t]].initialized = TRUE,
                                    ![kheld[t]].closed = FALSE]
    /\ kres' = [kres EXCEPT ![t] = [NoBRes EXCEPT !.op = "initialize",
                                                  !.svc = kheld[t], !.ok = TRUE]]
    /\ UNCHANGED <<user_services, service_lock, kpc, kreg, kheld, app_user,
                   logged_out, got, retired, app_logins>>
    /\ UNCHANGED notBlinkit

\* the browser context of an initialized service stores its login state at
\* the path it was given
LoginService(t) ==
    /\ kpc[t] = "idle"
    /\ kheld[t] # 0
    /\ services[kheld[t]].initialized
    /\ ~services[kheld[t]].closed
    /\ LET dir == get_user_session_dir(services[kheld[t]].username)
       IN /\ session_files[dir].dir
          /\ ~session_files[dir].auth_state
          /\ session_files' = [session_files EXCEPT ![dir].auth_state = TRUE]
    /\ UNCHANGED <<user_services, services, service_lock, kpc, kreg, kres, kheld,
                   app_user, logged_out, handed_paths, got, retired, store_cleared, app_logins>>
    /\ UNCHANGED notBlinkit

\* clear_user_blinkit_service: take _service_lock and pop the entry; logout
\* tells whether the call is the first step of _handle_logout
ClearPop(t, username, logout) ==
    /\ kpc[t] = "idle"
    /\ service_lock = "none"
    /\ LET cur == user_services[username]
       IN IF cur # 0
          THEN /\ user_services' = Popped(user_services, username)
               /\ retired' = [retired EXCEPT ![username] = @ \cup {cur}]
               /\ got' = [got EXCEPT ![username] = {}]
               /\ service_lock' = t
               /\ kreg' = [kreg EXCEPT ![t] = [username |-> username, svc |-> cur,
                                               logout |-> logout, popped |-> TRUE]]
               /\ kpc' = [kpc EXCEPT ![t] = "closing"]
               /\ UNCHANGED kres
          ELSE /\ kreg' = [kreg EXCEPT ![t] =
                             IF logout
                             THEN [NoBCall EXCEPT !.username = username,
                                                  !.logout = TRUE]
                             ELSE NoBCall]
               /\ kpc' = [kpc EXCEPT ![t] = IF logout THEN "clear_files" ELSE "idle"]
               /\ kres' = [kres EXCEPT ![t] = [NoBRes EXCEPT !.op = "clear_service",
                                                             !.username = username,
                                                             !.exists =
                                                                session_exists(username)]]
               /\ got' = [got EXCEPT ![username] = {}]
               /\ UNCHANGED <<user_services, retired, service_lock>>
    /\ UNCHANGED <<services, session_files, kheld, app_user, logged_out, handed_paths,
                   store_cleared, app_logins>>
    /\ UNCHANGED notBlinkit

\* main.py shutdown: clear_user_blinkit_service for a registered user
ClearService(t) ==
    \E username \in Usernames :
        /\ user_services[username] # 0
        /\ ClearPop(t, username, FALSE)

\* _handle_logout, step 1: clear_user_blinkit_service(username)
LogoutClearService(t) ==
    /\ app_user # NoUser
    /\ ClearPop(t, app_user, TRUE)

\* clear_user_blinkit_service: await service.close() with the lock held, then
\* release the lock and return True
ClearClose(t) ==
    /\ kpc[t] = "closing"
    /\ services' = [services EXCEPT ![kreg[t].svc].closed =
                                       @ \/ services[kreg[t].svc].initialized]
    /\ service_lock' = "none"
    /\ kres' = [kres EXCEPT ![t] = [NoBRes EXCEPT !.op = "clear_service",
                                                  !.username = kreg[t].username,
                                                  !.svc = kreg[t].svc, !.ok = TRUE,
                                                  !.exists =
                                                     session_exists(kreg[t].username)]]
    /\ kpc' = [kpc EXCEPT ![t] = IF kreg[t].logout THEN "clear_files" ELSE "idle"]
    /\ kreg' = [kreg EXCEPT ![t] = IF kreg[t].logout THEN @ ELSE NoBCall]
    /\ UNCHANGED <<user_services, session_files, kheld, app_user, logged_out,
                   handed_paths, got, retired, store_cleared, app_logins>>
    /\ UNCHANGED notBlinkit

\* clear_session under the session manager's own lock: False when there is no
\* directory, True when the files and the directory were removed, False when
\* removing them raised
ClearFiles(t, username) ==
    LET dir == get_user_session_dir(username)
    IN \E removed \in BOOLEAN :
         LET ok == session_files[dir].dir /\ removed
         IN /\ session_files' = IF ok THEN [session_files EXCEPT ![dir] = NoDir]
                                ELSE session_files
            /\ store_cleared' = IF ok THEN [store_cleared EXCEPT ![dir] = TRUE]
                                ELSE store_cleared
            /\ kres' = [kres EXCEPT ![t] = [NoBRes EXCEPT !.op = "clear_session",
                                                          !.username = username,
                                                          !.ok = ok,
                                                          !.exists =
                                                             ~ok /\ session_exists(username)]]

\* _handle_logout, step 2: session_mgr.clear_session(username)
LogoutClearSession(t) ==
    /\ kpc[t] = "clear_files"
    /\ ClearFiles(t, kreg[t].username)
    /\ kpc' = [kpc EXCEPT ![t] = "idle"]
    /\ kreg' = [kreg EXCEPT ![t] = NoBCall]
    /\ UNCHANGED <<user_services, services, service_lock, kheld, app_user, logged_out,
                   handed_paths, got, retired, app_logins>>
    /\ UNCHANGED notBlinkit

\* the application's login: current_user['username'] = user['email']
AppLogin(username) ==
    /\ app_user = NoUser
    /\ \A t \in BThreads : kpc[t] = "idle"
    /\ app_logins < MaxLogins
    /\ app_logins' = app_logins + 1
    /\ app_user' = username
    /\ logged_out' = logged_out \ {username}
    /\ kheld' = [t \in BThreads |-> 0]
    /\ kres' = [t \in BThreads |-> NoBRes]
    /\ UNCHANGED <<user_services, services, session_files, service_lock, kpc, kreg,
                   handed_paths, got, retired, store_cleared>>
    /\ UNCHANGED notBlinkit

\* the application's logout: SmartFridgeSystem.run, NewAuthManager.logout
AppLogout ==
    /\ app_user # NoUser
    /\ \A t \in BThreads : kpc[t] = "idle"
    /\ app_user' = NoUser
    /\ logged_out' = logged_out \cup {app_user}
    /\ kheld' = [t \in BThreads |-> 0]
    /\ UNCHANGED <<user_services, services, session_files, service_lock, kpc, kreg,
                   kres, handed_paths, got, retired, store_cleared, app_logins>>
    /\ UNCHANGED notBlinkit

NextBlinkit ==
    \/ \E t \in BThreads : GetService(t)
    \/ \E t \in BThreads : OrderGetService(t)
    \/ \E t \in BThreads : InitializeService(t)
    \/ \E t \in BThreads : LoginService(t)
    \/ \E t \in BThreads : ClearService(t)
    \/ \E t \in BThreads : LogoutClearService(t)
    \/ \E t \in BThreads : ClearClose(t)
    \/ \E t \in BThreads : LogoutClearSession(t)
    \/ \E u \in Usernames : AppLogin(u)
    \/ AppLogout

----------------------------------------------------------------------------
(* Password and Google providers over the users_v2 collection               *)
(* (src/auth/providers.py).  Each call ends with a record inserted into     *)
(* auth_audit_log; no operation reads these records back, and the model     *)
(* keeps the step that writes one and not the record.                       *)

MAX_LOGIN_ATTEMPTS == 5
LOCKOUT_DURATION == 1800

Emails == {"a@x.io"}
Passwords == {"pw", "bad"}

\* The clock advances by one second or to one second short of a lockout.
ProviderTickSteps == {1, LOCKOUT_DURATION - 1}

Tainted == 0 - 1

NoToken == [type |-> "", sub |-> "", exp |-> 0, jti |-> 0]

NoRow == [_id |-> 0, email |-> "", auth_provider |-> "", password_hash |-> "",
          failed_login_attempts |-> 0, locked_until |-> None, linked |-> FALSE,
          password_reset_token |-> NoToken, password_reset_expires |-> None]

\* locals of a call: user_id and failed_attempts are of the row it read
NoPCall == [op |-> "none", email |-> "", password |-> "", user_id |-> 0,
            failed_attempts |-> 0, overlapped |-> FALSE, outcome |-> "none", t |-> 0,
            reset_token |-> NoToken, issued |-> 0]

\* what a call returned, and for which email and password
NoPRes == [op |-> "none", outcome |-> "none", email |-> "", password |-> ""]

\* find({'email': email})
ByEmail(email) == {u \in users_v2 : u.email = email}

\* the unique index email_unique: insert_one raises DuplicateKeyError
DuplicateKey_NoIndex(email) == FALSE

DuplicateKey(email) == ByEmail(email) # {}

\* checkpw(password, password_hash)
checkpw(password, password_hash) == password = password_hash

\* the lock check of authenticate: locked_until is set and still ahead
AccountLocked(user) == user.locked_until # None /\ now < user.locked_until

\* the account is locked by the failure that brings the count to the maximum
LocksAt_Late(failed_attempts) == failed_attempts > MAX_LOGIN_ATTEMPTS

LocksAt(failed_attempts) == failed_attempts >= MAX_LOGIN_ATTEMPTS

InAuthenticate(c) == ppc[c] \in {"auth_fail_update", "auth_ok_update", "auth_audit"}

\* a call returns: its result is kept, its locals are dropped
PReturn(c, outcome) ==
    /\ ppc' = [ppc EXCEPT ![c] = "idle"]
    /\ preg' = [preg EXCEPT ![c] = NoPCall]
    /\ pres' = [pres EXCEPT ![c] = [op |-> preg[c].op, outcome |-> outcome,
                                    email |-> preg[c].email,
                                    password |-> preg[c].password]]

PStart(c, op, email, password) ==
    [NoPCall EXCEPT !.op = op, !.email = email, !.password = password, !.t = now]

\* register, to the lookup of the email
RegisterFind(c, email) ==
    /\ ppc[c] = "idle"
    /\ IF ByEmail(email) # {}
       THEN /\ ppc' = [ppc EXCEPT ![c] = "idle"]
            /\ preg' = preg
            /\ pres' = [pres EXCEPT ![c] = [op |-> "register",
                                            outcome |-> "already_registered",
                                            email |-> email, password |-> "pw"]]
       ELSE /\ ppc' = [ppc EXCEPT ![c] = "reg_insert"]
            /\ preg' = [preg EXCEPT ![c] = PStart(c, "register", email, "pw")]
            /\ pres' = pres
    /\ UNCHANGED <<users_v2, next_uid, lockoutVars, reset_mail, reset_revoked, reset_used,
                   notProviders>>

\* register: insert_one(user_doc)
RegisterInsert(c) ==
    /\ ppc[c] = "reg_insert"
    /\ IF DuplicateKey(preg[c].email)
       THEN /\ PReturn(c, "server_error")
            /\ UNCHANGED <<users_v2, next_uid>>
       ELSE /\ users_v2' = users_v2 \cup
                   {[NoRow EXCEPT !._id = next_uid, !.email = preg[c].email,
                                  !.auth_provider = "email", !.password_hash = "pw"]}
            /\ next_uid' = next_uid + 1
            /\ ppc' = [ppc EXCEPT ![c] = "reg_audit"]
            /\ UNCHANGED <<preg, pres>>
    /\ UNCHANGED <<lockoutVars, reset_mail, reset_revoked, reset_used,
                   notProviders>>

\* register: the audit record, and the return
RegisterAudit(c) ==
    /\ ppc[c] = "reg_audit"
    /\ PReturn(c, "success")
    /\ UNCHANGED <<users_v2, next_uid, lockoutVars, reset_mail, reset_revoked, reset_used,
                   notProviders>>

\* provision_or_link_user, to the lookup of the email
ProvisionFind(c, email) ==
    /\ ppc[c] = "idle"
    /\ IF ByEmail(email) # {}
       THEN \E existing_user \in ByEmail(email) :
               IF existing_user.linked
               THEN /\ ppc' = [ppc EXCEPT ![c] = "idle"]
                    /\ preg' = preg
                    /\ pres' = [pres EXCEPT ![c] = [op |-> "provision",
                                                    outcome |-> "success",
                                                    email |-> email, password |-> ""]]
               ELSE /\ ppc' = [ppc EXCEPT ![c] = "link_update"]
                    /\ preg' = [preg EXCEPT ![c] =
                                   [PStart(c, "provision", email, "") EXCEPT
                                       !.user_id = existing_user._id]]
                    /\ pres' = pres
       ELSE /\ ppc' = [ppc EXCEPT ![c] = "prov_insert"]
            /\ preg' = [preg EXCEPT ![c] = PStart(c, "provision", email, "")]
            /\ pres' = pres
    /\ UNCHANGED <<users_v2, next_uid, lockoutVars, reset_mail, reset_revoked, reset_used,
                   notProviders>>

\* provision_or_link_user: $push of the Google account into the existing row
ProvisionLink(c) ==
    /\ ppc[c] = "link_update"
    /\ users_v2' = {IF u._id = preg[c].user_id THEN [u EXCEPT !.linked = TRUE] ELSE u :
                       u \in users_v2}
    /\ PReturn(c, "success")
    /\ UNCHANGED <<next_uid, lockoutVars, reset_mail, reset_revoked, reset_used,
                   notProviders>>

\* provision_or_link_user: insert_one(user_doc)
ProvisionInsert(c) ==
    /\ ppc[c] = "prov_insert"
    /\ IF DuplicateKey(preg[c].email)
       THEN /\ PReturn(c, "server_error")
            /\ UNCHANGED <<users_v2, next_uid>>
       ELSE /\ users_v2' = users_v2 \cup
                   {[NoRow EXCEPT !._id = next_uid, !.email = preg[c].email,
                                  !.auth_provider = "google", !.password_hash = "",
                                  !.linked = TRUE]}
            /\ next_uid' = next_uid + 1
            /\ ppc' = [ppc EXCEPT ![c] = "prov_audit"]
            /\ UNCHANGED <<preg, pres>>
    /\ UNCHANGED <<lockoutVars, reset_mail, reset_revoked, reset_used,
                   notProviders>>

\* provision_or_link_user: the audit record, and the return
ProvisionAudit(c) ==
    /\ ppc[c] = "prov_audit"
    /\ PReturn(c, "success")
    /\ UNCHANGED <<users_v2, next_uid, lockoutVars, reset_mail, reset_revoked, reset_used,
                   notProviders>>

\* authenticate, to the lookup of the user: the lock and the password are
\* checked on the row that was read
AuthFind(c, email, password) ==
    /\ ppc[c] = "idle"
    /\ LET found == {u \in ByEmail(email) : u.auth_provider = "email"}
           busy == \E d \in Clients \ {c} : InAuthenticate(d)
           call == [PStart(c, "authenticate", email, password) EXCEPT !.overlapped = busy]
           seen == [d \in Clients |->
                       IF InAuthenticate(d) THEN [preg[d] EXCEPT !.overlapped = TRUE]
                       ELSE preg[d]]
       IN IF found = {}
          THEN /\ ppc' = [ppc EXCEPT ![c] = "auth_audit"]
               /\ preg' = [seen EXCEPT ![c] = [call EXCEPT !.outcome = "user_not_found"]]
               /\ pres' = pres
          ELSE \E user \in found :
                  IF AccountLocked(user)
                  THEN /\ ppc' = [ppc EXCEPT ![c] = "idle"]
                       /\ preg' = seen
                       /\ pres' = [pres EXCEPT ![c] = [op |-> "authenticate",
                                                       outcome |-> "locked",
                                                       email |-> email,
                                                       password |-> password]]
                  ELSE /\ ppc' = [ppc EXCEPT ![c] =
                                     IF checkpw(password, user.password_hash)
                                     THEN "auth_ok_update" ELSE "auth_fail_update"]
                       /\ preg' = [seen EXCEPT ![c] =
                                      [call EXCEPT !.user_id = user._id,
                                                   !.failed_attempts =
                                                       user.failed_login_attempts]]
                       /\ pres' = pres
    /\ UNCHANGED <<users_v2, next_uid, lockoutVars, reset_mail, reset_revoked, reset_used,
                   notProviders>>

\* authenticate, wrong password: the count read plus one is written back, with
\* the lock when it reaches the maximum
AuthFailUpdate(c) ==
    /\ ppc[c] = "auth_fail_update"
    /\ LET failed_attempts == preg[c].failed_attempts + 1
       IN users_v2' = {IF u._id = preg[c].user_id
                       THEN [u EXCEPT !.failed_login_attempts = failed_attempts,
                                      !.locked_until = IF LocksAt(failed_attempts)
                                                       THEN now + LOCKOUT_DURATION
                                                       ELSE @]
                       ELSE u : u \in users_v2}
    /\ ppc' = [ppc EXCEPT ![c] = "auth_audit"]
    /\ preg' = [preg EXCEPT ![c].outcome = "invalid_password"]
    /\ UNCHANGED <<pres, next_uid, lockoutVars, reset_mail, reset_revoked, reset_used,
                   notProviders>>

\* authenticate, right password: the count and the lock are reset
AuthOkUpdate(c) ==
    /\ ppc[c] = "auth_ok_update"
    /\ users_v2' = {IF u._id = preg[c].user_id
                    THEN [u EXCEPT !.failed_login_attempts = 0, !.locked_until = None]
                    ELSE u : u \in users_v2}
    /\ ppc' = [ppc EXCEPT ![c] = "auth_audit"]
    /\ preg' = [preg EXCEPT ![c].outcome = "success"]
    /\ UNCHANGED <<pres, next_uid, lockoutVars, reset_mail, reset_revoked, reset_used,
                   notProviders>>

\* authenticate: the audit record, and the return.  streak counts the
\* wrong-password calls that have returned since the last successful one, each
\* of them run with no other authenticate call in progress.
AuthAudit(c) ==
    /\ ppc[c] = "auth_audit"
    /\ PReturn(c, preg[c].outcome)
    /\ LET next_streak ==
               CASE preg[c].outcome = "user_not_found" -> streak
                 [] preg[c].overlapped \/ streak = Tainted -> 
                        IF preg[c].outcome = "success" /\ ~preg[c].overlapped
                        THEN 0 ELSE Tainted
                 [] preg[c].outcome = "success" -> 0
                 [] OTHER -> streak + 1
       IN /\ streak' = next_streak
          /\ fifth_started' = CASE next_streak = streak -> fifth_started
                                [] next_streak = MAX_LOGIN_ATTEMPTS -> preg[c].t
                                [] OTHER -> 0
          /\ fifth_returned' = CASE next_streak = streak -> fifth_returned
                                 [] next_streak = MAX_LOGIN_ATTEMPTS -> now
                                 [] OTHER -> 0
    /\ UNCHANGED <<users_v2, next_uid, reset_mail, reset_revoked, reset_used, notProviders>>

TickProviders ==
    /\ ticks < MaxTicks
    /\ \E d \in ProviderTickSteps :
         /\ d > 1 => \A c \in Clients : ppc[c] = "idle"
         /\ now' = now + d
    /\ ticks' = ticks + 1
    /\ UNCHANGED <<providerVars, authVars, notAuth>>

\* registration and Google sign-in
NextProvision ==
    \/ \E c \in Clients, e \in Emails : RegisterFind(c, e)
    \/ \E c \in Clients : RegisterInsert(c)
    \/ \E c \in Clients : RegisterAudit(c)
    \/ \E c \in Clients, e \in Emails : ProvisionFind(c, e)
    \/ \E c \in Clients : ProvisionLink(c)
    \/ \E c \in Clients : ProvisionInsert(c)
    \/ \E c \in Clients : ProvisionAudit(c)

\* registration and password login
NextLogin ==
    \/ \E c \in Clients, e \in Emails : RegisterFind(c, e)
    \/ \E c \in Clients : RegisterInsert(c)
    \/ \E c \in Clients : RegisterAudit(c)
    \/ \E c \in Clients, e \in Emails, p \in Passwords : AuthFind(c, e, p)
    \/ \E c \in Clients : AuthFailUpdate(c)
    \/ \E c \in Clients : AuthOkUpdate(c)
    \/ \E c \in Clients : AuthAudit(c)
    \/ TickProviders

----------------------------------------------------------------------------
(* Password reset (request_password_reset, reset_password) over users_v2    *)
(* and auth_sessions                                                        *)

\* ObjectId(user_id) and str(_id): the user of the session store is the first
\* row of users_v2
ObjectId(user_id) == IF user_id = "alice" THEN 1 ELSE 0

str(_id) == IF _id = 1 THEN "alice" ELSE ""

\* filter of the update_many of reset_password: {'user_id': _id, 'revoked': False}
OfUserUnrevoked_AsString(s, _id) == FALSE

OfUserUnrevoked(s, _id) == ObjectId(s.user_id) = _id /\ s.revoked = FALSE

\* request_password_reset, to the lookup of the user: the token is signed
ResetRequestFind(c, email) ==
    /\ ppc[c] = "idle"
    /\ Cardinality(reset_mail) + Cardinality({x \in Clients : ppc[x] \in {"rr_update", "rr_audit"}})
           < MaxResets
    /\ LET found == {u \in ByEmail(email) : u.auth_provider = "email"}
       IN IF found = {}
          THEN /\ pres' = [pres EXCEPT ![c] = [op |-> "request_password_reset",
                                               outcome |-> "success",
                                               email |-> email, password |-> ""]]
               /\ UNCHANGED <<ppc, preg>>
          ELSE \E user \in found :
                  /\ ppc' = [ppc EXCEPT ![c] = "rr_update"]
                  /\ preg' = [preg EXCEPT ![c] =
                                 [PStart(c, "request_password_reset", email, "") EXCEPT
                                     !.user_id = user._id,
                                     !.reset_token =
                                         [type |-> "reset", sub |-> str(user._id),
                                          exp |-> now + JWT_RESET_TOKEN_EXPIRY,
                                          jti |-> Cardinality(reset_mail) + 1]]]
                  /\ pres' = pres
    /\ UNCHANGED <<users_v2, next_uid, lockoutVars, reset_mail, reset_revoked, reset_used, notProviders>>

\* request_password_reset: the token and its expiry are stored on the row
ResetRequestUpdate(c) ==
    /\ ppc[c] = "rr_update"
    /\ users_v2' = {IF u._id = preg[c].user_id
                    THEN [u EXCEPT !.password_reset_token = preg[c].reset_token,
                                   !.password_reset_expires = now + JWT_RESET_TOKEN_EXPIRY]
                    ELSE u : u \in users_v2}
    /\ ppc' = [ppc EXCEPT ![c] = "rr_audit"]
    /\ UNCHANGED <<preg, pres, next_uid, lockoutVars, reset_mail, reset_revoked, reset_used,
                   notProviders>>

\* request_password_reset: the audit record, and the token goes out
ResetRequestAudit(c) ==
    /\ ppc[c] = "rr_audit"
    /\ reset_mail' = reset_mail \cup {preg[c].reset_token}
    /\ PReturn(c, "success")
    /\ UNCHANGED <<users_v2, next_uid, lockoutVars, reset_revoked, reset_used,
                   notProviders>>

\* reset_password, to the lookup of the user: the token is validated as a
\* reset token, compared with the stored one, and the stored expiry is checked
ResetFind(c, reset_token) ==
    /\ ppc[c] = "idle"
    /\ reset_token \in reset_mail
    /\ LET found == {u \in users_v2 : u._id = ObjectId(reset_token.sub)}
           call == [PStart(c, "reset_password", "", "new") EXCEPT
                       !.reset_token = reset_token, !.issued = Len(tokens)]
           refused(why) ==
               /\ pres' = [pres EXCEPT ![c] = [op |-> "reset_password", outcome |-> why,
                                               email |-> "", password |-> "new"]]
               /\ UNCHANGED <<ppc, preg>>
       IN IF ~validate_token(<<reset_token>>, 1, "reset")
          THEN refused("invalid_token")
          ELSE IF found = {}
          THEN refused("user_not_found")
          ELSE \E user \in found :
                  IF user.password_reset_token # reset_token
                  THEN refused("invalid_token")
                  ELSE IF user.password_reset_expires = None
                          \/ now > user.password_reset_expires
                  THEN refused("expired")
                  ELSE /\ ppc' = [ppc EXCEPT ![c] = "rp_update"]
                       /\ preg' = [preg EXCEPT ![c] = [call EXCEPT !.user_id = user._id,
                                                                   !.email = user.email]]
                       /\ pres' = pres
    /\ UNCHANGED <<users_v2, next_uid, lockoutVars, reset_mail, reset_revoked, reset_used, notProviders>>

\* reset_password with an update that leaves the reset token on the row
ResetUpdateUser_KeepsToken(c) ==
    /\ ppc[c] = "rp_update"
    /\ users_v2' = {IF u._id = preg[c].user_id
                    THEN [u EXCEPT !.password_hash = preg[c].password,
                                   !.failed_login_attempts = 0,
                                   !.locked_until = None]
                    ELSE u : u \in users_v2}
    /\ ppc' = [ppc EXCEPT ![c] = "rp_revoke"]
    /\ UNCHANGED <<preg, pres, next_uid, lockoutVars, reset_mail, reset_revoked, reset_used,
                   notProviders>>

\* reset_password: the new password is stored, the reset token and the lock
\* are cleared
ResetUpdateUser(c) ==
    /\ ppc[c] = "rp_update"
    /\ users_v2' = {IF u._id = preg[c].user_id
                    THEN [u EXCEPT !.password_hash = preg[c].password,
                                   !.password_reset_token = NoToken,
                                   !.password_reset_expires = None,
                                   !.failed_login_attempts = 0,
                                   !.locked_until = None]
                    ELSE u : u \in users_v2}
    /\ ppc' = [ppc EXCEPT ![c] = "rp_revoke"]
    /\ UNCHANGED <<preg, pres, next_uid, lockoutVars, reset_mail, reset_revoked, reset_used,
                   notProviders>>

\* reset_password: update_many marks the user's sessions revoked
ResetRevokeSessions(c) ==
    /\ ppc[c] = "rp_revoke"
    /\ auth_sessions' = {IF OfUserUnrevoked(s, preg[c].user_id) THEN RevokeFields(s) ELSE s :
                            s \in auth_sessions}
    /\ ppc' = [ppc EXCEPT ![c] = "rp_audit"]
    /\ UNCHANGED <<preg, pres, users_v2, next_uid, lockoutVars, reset_mail, reset_revoked, reset_used,
                   auth_audit_log, tokens, issued_pairs, rotations, next_sid, apc, areg,
                   ares, clockVars, notAuthNotProviders>>

\* reset_password: the audit record, and the return of True
ResetAudit(c) ==
    /\ ppc[c] = "rp_audit"
    /\ reset_revoked' = reset_revoked \cup
           {jti \in 1..preg[c].issued : ObjectId(tokens[jti].sub) = preg[c].user_id}
    /\ reset_used' = reset_used \cup {preg[c].reset_token}
    /\ PReturn(c, "success")
    /\ UNCHANGED <<users_v2, next_uid, lockoutVars, reset_mail, notProviders>>

\* one caller runs the registration and the reset flow, the other one uses
\* the session store
Resetters == {"c1"}

SessionCallers == {"c2"}

\* registration, password reset and the session store
NextReset ==
    \/ \E c \in Resetters, e \in Emails : RegisterFind(c, e)
    \/ \E c \in Resetters : RegisterInsert(c)
    \/ \E c \in Resetters : RegisterAudit(c)
    \/ \E c \in Resetters, e \in Emails : ResetRequestFind(c, e)
    \/ \E c \in Resetters : ResetRequestUpdate(c)
    \/ \E c \in Resetters : ResetRequestAudit(c)
    \/ \E c \in Resetters, t \in reset_mail : ResetFind(c, t)
    \/ \E c \in Resetters : ResetUpdateUser(c)
    \/ \E c \in Resetters : ResetRevokeSessions(c)
    \/ \E c \in Resetters : ResetAudit(c)
    \/ \E c \in SessionCallers, u \in AuthUsers : CreateSessionInsert(c, u)
    \/ \E c \in SessionCallers : CreateSessionAudit(c)
    \/ \E c \in SessionCallers, tok \in 1..(2 * MaxPairs) : RefreshFind(c, tok)
    \/ \E c \in SessionCallers : RefreshUpdate(c)
    \/ \E c \in SessionCallers : RefreshAudit(c)
    \/ \E c \in SessionCallers, tok \in 1..(2 * MaxPairs) : ValidateFind(c, tok)
    \/ \E c \in SessionCallers : ValidateTouch(c)
    \/ TickAuth

----------------------------------------------------------------------------
(* The connection manager (DatabaseStateMachine, src/database/connection.py) *)
(* and its health-check worker.  The reentrant lock is held across the       *)
(* factory call, the back-off sleep and the ping, so each of those is a      *)
(* suspension point with the lock taken; the shutdown event is set and read  *)
(* outside the lock.                                                         *)

ConnThreads == {"t1", "t2"}

\* max_retries of ensure_connected
ensure_max_retries == 3

\* the early return of ensure_connected
AlreadyConnected_Never(state) == FALSE

AlreadyConnected(state) == state = "CONNECTED"

\* _health_check_thread and _health_check_thread.is_alive()
WorkerAlive == wpc # "none"

\* ensure_connected, to the first factory call
EnsureStart(t) ==
    /\ dpc[t] = "idle"
    /\ db_lock = "none"
    /\ IF AlreadyConnected(db_state)
       THEN /\ dres' = [dres EXCEPT ![t] = "connected"]
            /\ UNCHANGED <<db_state, db_lock, dpc, dattempt>>
       ELSE /\ db_state' = "CONNECTING"
            /\ db_lock' = t
            /\ dpc' = [dpc EXCEPT ![t] = "ec_connect"]
            /\ dattempt' = [dattempt EXCEPT ![t] = 0]
            /\ dres' = [dres EXCEPT ![t] = "none"]
    /\ UNCHANGED <<db_client, shutdown, wpc, notConn>>

\* one attempt of ensure_connected: the factory and server_info return, the
\* state is updated and _start_health_check runs; or one of them raises
EnsureAttempt(t, ok) ==
    /\ dpc[t] = "ec_connect"
    /\ IF ok
       THEN /\ db_client' = 1
            /\ db_state' = "CONNECTED"
            /\ IF WorkerAlive
               THEN UNCHANGED <<shutdown, wpc>>
               ELSE /\ shutdown' = FALSE
                    /\ wpc' = "wait"
            /\ db_lock' = "none"
            /\ dpc' = [dpc EXCEPT ![t] = "idle"]
            /\ dres' = [dres EXCEPT ![t] = "connected"]
       ELSE /\ db_client' = 0
            /\ db_state' = "ERROR"
            /\ UNCHANGED <<shutdown, wpc>>
            /\ IF dattempt[t] < ensure_max_retries - 1
               THEN /\ dpc' = [dpc EXCEPT ![t] = "ec_sleep"]
                    /\ UNCHANGED <<db_lock, dres>>
               ELSE /\ db_lock' = "none"
                    /\ dpc' = [dpc EXCEPT ![t] = "idle"]
                    /\ dres' = [dres EXCEPT ![t] = "DatabaseConnectionError"]
    /\ UNCHANGED <<dattempt, notConn>>

\* the back-off sleep of ensure_connected is over: the next attempt begins
EnsureRetry(t) ==
    /\ dpc[t] = "ec_sleep"
    /\ db_state' = "CONNECTING"
    /\ dattempt' = [dattempt EXCEPT ![t] = @ + 1]
    /\ dpc' = [dpc EXCEPT ![t] = "ec_connect"]
    /\ UNCHANGED <<db_client, db_lock, shutdown, wpc, dres, notConn>>

\* what disconnect does under the lock once the join is over
CloseAndReset(t) ==
    /\ db_client' = 0
    /\ db_state' = "DISCONNECTED"
    /\ db_lock' = "none"
    /\ dpc' = [dpc EXCEPT ![t] = "idle"]
    /\ dres' = [dres EXCEPT ![t] = "disconnected"]

\* disconnect: the shutdown event is set before the lock is asked for
DisconnectSignal(t) ==
    /\ dpc[t] = "idle"
    /\ shutdown' = TRUE
    /\ dpc' = [dpc EXCEPT ![t] = "dc_lock"]
    /\ UNCHANGED <<db_state, db_client, db_lock, wpc, dattempt, dres, notConn>>

\* disconnect gets the lock: it joins a live worker, or goes on to close
DisconnectLock(t) ==
    /\ dpc[t] = "dc_lock"
    /\ db_lock = "none"
    /\ IF WorkerAlive
       THEN /\ db_lock' = t
            /\ dpc' = [dpc EXCEPT ![t] = "dc_join"]
            /\ UNCHANGED <<db_state, db_client, dres>>
       ELSE CloseAndReset(t)
    /\ UNCHANGED <<shutdown, wpc, dattempt, notConn>>

\* join(timeout=2) returns, because the worker ended or the two seconds passed
DisconnectJoin(t) ==
    /\ dpc[t] = "dc_join"
    /\ CloseAndReset(t)
    /\ UNCHANGED <<shutdown, wpc, dattempt, notConn>>

\* _health_check_loop at the loop test and the wait: the event is set and the
\* worker ends, or the interval passes
WorkerWake ==
    /\ wpc = "wait"
    /\ wpc' = IF shutdown THEN "none" ELSE "lock"
    /\ UNCHANGED <<db_state, db_client, db_lock, shutdown, dpc, dattempt, dres, notConn>>

\* the worker gets the lock, tests the event again and starts the ping
WorkerLock ==
    /\ wpc = "lock"
    /\ db_lock = "none"
    /\ IF shutdown
       THEN /\ wpc' = "none"
            /\ db_lock' = db_lock
       ELSE IF db_state = "CONNECTED" /\ db_client # 0
       THEN /\ wpc' = "ping"
            /\ db_lock' = "worker"
       ELSE /\ wpc' = "wait"
            /\ db_lock' = db_lock
    /\ UNCHANGED <<db_state, db_client, shutdown, dpc, dattempt, dres,
                   notConn>>

PingOutcomes == {"ok", "InvalidOperation", "Exception"}

\* the ping returns or raises
WorkerPing(outcome) ==
    /\ wpc = "ping"
    /\ db_lock' = "none"
    /\ wpc' = IF outcome = "InvalidOperation" THEN "none" ELSE "wait"
    /\ db_state' = IF outcome = "Exception" /\ ~shutdown THEN "ERROR" ELSE db_state
    /\ UNCHANGED <<db_client, shutdown, dpc, dattempt, dres, notConn>>

NextConn ==
    \/ \E t \in ConnThreads : EnsureStart(t)
    \/ \E t \in ConnThreads, ok \in BOOLEAN : EnsureAttempt(t, ok)
    \/ \E t \in ConnThreads : EnsureRetry(t)
    \/ \E t \in ConnThreads : DisconnectSignal(t)
    \/ \E t \in ConnThreads : DisconnectLock(t)
    \/ \E t \in ConnThreads : DisconnectJoin(t)
    \/ WorkerWake
    \/ WorkerLock
    \/ \E outcome \in PingOutcomes : WorkerPing(outcome)

----------------------------------------------------------------------------
(* The transaction runtime (MongoTransaction and                             *)
(* TransactionManager.execute_in_transaction, src/database/transactions.py). *)
(* fn issues FnOps operations on the transaction it is given and lets their  *)
(* errors through.  Every call of the driver (the start of the session and   *)
(* of the transaction, an operation, the commit) may raise.                  *)

\* timeout_seconds of a transaction; the attempts of execute_in_transaction
\* are max_retries
timeout_seconds == 30

FnOps == 2

\* what a driver call raises: nothing, ConnectionFailure, OperationFailure with
\* the label TransientTransactionError, OperationFailure without it, or
\* another exception
DriverErrors == {"none", "ConnectionFailure", "TransientTransactionError",
                 "OperationFailure", "Exception"}

Transient == {"ConnectionFailure", "TransientTransactionError"}

\* The clock advances to the deadline of a transaction or by one second.
TxnTickSteps == {timeout_seconds, 1}

NoTxn == [attempt |-> 0, op |-> 0, fn_calls |-> 0, start_time |-> 0, ops |-> 0,
          raised |-> "none", stage |-> "none"]

NoTxnResult == [outcome |-> "none", cause |-> "none", stage |-> "none", attempts |-> 0,
                fn_calls |-> 0]

\* the except clauses of execute_in_transaction that go round the loop again
Retried_AnyOperationFailure(e) == e \in Transient \cup {"OperationFailure"}

Retried(e) == e \in Transient

\* _check_timeout
TimedOut_Never(start_time) == FALSE

TimedOut(start_time) == now - start_time > timeout_seconds

\* execute_in_transaction raises TransactionError, or returns the result of fn
TxnReturn(outcome, cause, stage) ==
    /\ xpc' = "idle"
    /\ xres' = [outcome |-> outcome, cause |-> cause, stage |-> stage,
                attempts |-> xreg.attempt + 1, fn_calls |-> xreg.fn_calls]

\* an exception leaves the with block: __exit__ rolls back and ends the
\* session, and the except clauses of execute_in_transaction sort it
TxnRaise(e, stage) ==
    /\ txn_state' = IF txn_state = "active" THEN "aborted" ELSE txn_state
    /\ xreg' = [xreg EXCEPT !.raised = e, !.stage = stage]
    /\ IF Retried(e)
       THEN /\ xpc' = "sleep"
            /\ xres' = xres
       ELSE TxnReturn("TransactionError", e, stage)

\* execute_in_transaction is called
TxnCall ==
    /\ xpc = "idle"
    /\ xruns < MaxRuns
    /\ xruns' = xruns + 1
    /\ xpc' = "begin"
    /\ xreg' = NoTxn
    /\ xres' = NoTxnResult
    /\ txn_state' = "none"
    /\ UNCHANGED <<clockVars, notTxn>>

\* MongoTransaction.__enter__: start_session and start_transaction; whatever
\* they raise is raised again as TransactionError
TxnBegin(e) ==
    /\ xpc = "begin"
    /\ IF e = "none"
       THEN /\ txn_state' = "active"
            /\ xpc' = "fn"
            /\ xreg' = [xreg EXCEPT !.op = 0, !.ops = 0,
                                    !.start_time = now, !.fn_calls = @ + 1]
            /\ xres' = xres
       ELSE /\ txn_state' = "none"
            /\ xreg' = [xreg EXCEPT !.raised = e, !.stage = "begin"]
            /\ TxnReturn("TransactionError", e, "begin")
    /\ UNCHANGED <<xruns, clockVars, notTxn>>

\* one operation of fn on the transaction: _check_timeout, then the driver
TxnOp(e) ==
    /\ xpc = "fn"
    /\ xreg.op < FnOps
    /\ IF TimedOut(xreg.start_time)
       THEN TxnRaise("TransactionTimeoutError", "timeout")
       ELSE IF e = "none"
       THEN /\ xreg' = [xreg EXCEPT !.op = @ + 1, !.ops = @ + 1]
            /\ UNCHANGED <<xpc, xres, txn_state>>
       ELSE TxnRaise(e, "fn")
    /\ UNCHANGED <<xruns, clockVars, notTxn>>

\* fn has returned: commit; whatever commit_transaction raises is rolled back
\* and raised again as TransactionError
TxnCommit(e) ==
    /\ xpc = "fn"
    /\ xreg.op = FnOps
    /\ IF e = "none"
       THEN /\ txn_state' = "committed"
            /\ xreg' = xreg
            /\ TxnReturn("ok", "none", "none")
       ELSE /\ txn_state' = "aborted"
            /\ xreg' = [xreg EXCEPT !.raised = e, !.stage = "commit"]
            /\ TxnReturn("TransactionError", e, "commit")
    /\ UNCHANGED <<xruns, clockVars, notTxn>>

\* the sleep after a retried failure is over: the next attempt, or the
\* TransactionError after the last one
TxnSleep ==
    /\ xpc = "sleep"
    /\ IF xreg.attempt < max_retries - 1
       THEN /\ xreg' = [xreg EXCEPT !.attempt = @ + 1]
            /\ xpc' = "begin"
            /\ UNCHANGED <<xres, txn_state>>
       ELSE /\ TxnReturn("TransactionError", xreg.raised, "exhausted")
            /\ UNCHANGED <<xreg, txn_state>>
    /\ UNCHANGED <<xruns, clockVars, notTxn>>

TickTxn ==
    /\ ticks < MaxTicks
    /\ \E d \in TxnTickSteps : now' = now + d
    /\ ticks' = ticks + 1
    /\ UNCHANGED <<txnVars, notTxn>>

NextTxn ==
    \/ TxnCall
    \/ \E e \in DriverErrors : TxnBegin(e)
    \/ \E e \in DriverErrors : TxnOp(e)
    \/ \E e \in DriverErrors : TxnCommit(e)
    \/ TxnSleep
    \/ TickTxn

----------------------------------------------------------------------------
(* Google sign-in from the command line (CLIAuthManager.login_google_oauth,  *)
(* src/auth/cli.py), the local callback server (src/auth/oauth.py) and       *)
(* GoogleOAuthProvider.authenticate (src/auth/providers.py).  The callback   *)
(* server answers every request that reaches the port while it is up.        *)

\* values of the state parameter: the ones PKCESession draws are fresh, one
\* per login; a request to the callback port may carry any of them
OAuthStates == 1..(MaxOAuthLogins + 1)

Codes == {"code"}

NoCallback == [code |-> "", state |-> 0, error |-> FALSE]

\* the comparison of login_google_oauth
StateMatches_Unchecked(callback_state, session_state) == TRUE

StateMatches(callback_state, session_state) == callback_state = session_state

\* login_google_oauth, to the wait: a PKCESession with a fresh state, the
\* server is started and the browser opened; callback_data is an attribute of
\* the handler class and keeps what the last login left in it
OAuthLogin ==
    /\ opc = "idle"
    /\ oauth_logins < MaxOAuthLogins
    /\ oauth_logins' = oauth_logins + 1
    /\ pkce_session' = oauth_logins + 1
    /\ callback_local' = NoCallback
    /\ callback_seen' = FALSE
    /\ server_up' = TRUE
    /\ opc' = "started"
    /\ UNCHANGED <<callback_data, exchanged, oauth_sessions, ores, notOAuth>>

\* wait_for_callback begins: it resets callback_data
OAuthWaitBegin ==
    /\ opc = "started"
    /\ callback_data' = NoCallback
    /\ opc' = "waiting"
    /\ UNCHANGED <<pkce_session, callback_local, callback_seen, server_up, exchanged,
                   oauth_sessions, oauth_logins, ores, notOAuth>>

\* OAuthCallbackHandler.do_GET: a request with an error, or with a code and a
\* state, replaces callback_data
CallbackRequest(code, state, error) ==
    /\ server_up
    /\ callback_data' = IF error THEN [NoCallback EXCEPT !.error = TRUE]
                        ELSE [code |-> code, state |-> state, error |-> FALSE]
    /\ callback_data' # callback_data \/ ~callback_seen
    /\ callback_seen' = TRUE
    /\ UNCHANGED <<opc, pkce_session, callback_local, server_up, exchanged,
                   oauth_sessions, oauth_logins, ores, notOAuth>>

\* login_google_oauth returns: the finally clause stops the server
OAuthReturn(result) ==
    /\ opc' = "idle"
    /\ server_up' = FALSE
    /\ ores' = result

\* wait_for_callback returns what the handler stored, or nothing after the
\* timeout
OAuthWaited(timed_out) ==
    /\ opc = "waiting"
    /\ IF timed_out
       THEN /\ callback_data = NoCallback
            /\ OAuthReturn("timeout")
            /\ UNCHANGED callback_local
       ELSE /\ callback_data # NoCallback
            /\ callback_local' = callback_data
            /\ opc' = "received"
            /\ UNCHANGED <<server_up, ores>>
    /\ UNCHANGED <<pkce_session, callback_data, exchanged, oauth_sessions, oauth_logins,
                   callback_seen, notOAuth>>

\* login_google_oauth on the callback: the error, the state, the credentials
OAuthVerify ==
    /\ opc = "received"
    /\ IF callback_local.error
       THEN OAuthReturn("error")
       ELSE IF ~StateMatches(callback_local.state, pkce_session)
       THEN OAuthReturn("invalid_state")
       ELSE /\ opc' = "exchange"
            /\ UNCHANGED <<server_up, ores>>
    /\ UNCHANGED <<pkce_session, callback_data, callback_local, exchanged, oauth_sessions,
                   oauth_logins, callback_seen, notOAuth>>

\* GoogleOAuthProvider.authenticate, to exchange_code_for_tokens
OAuthExchange(success) ==
    /\ opc = "exchange"
    /\ exchanged' = exchanged \cup {[code |-> callback_local.code,
                                     state |-> callback_local.state,
                                     session_state |-> pkce_session]}
    /\ IF success
       THEN /\ opc' = "exchanged"
            /\ UNCHANGED <<server_up, ores>>
       ELSE OAuthReturn("failed")
    /\ UNCHANGED <<pkce_session, callback_data, callback_local, oauth_sessions,
                   oauth_logins, callback_seen, notOAuth>>

\* the ID token is validated, the user provisioned or linked, the login
\* audited, and authenticate_user creates the session
OAuthSession(success) ==
    /\ opc = "exchanged"
    /\ IF success
       THEN /\ oauth_sessions' = oauth_sessions \cup
                                     {[state |-> callback_local.state,
                                       session_state |-> pkce_session]}
            /\ OAuthReturn("session")
       ELSE /\ OAuthReturn("failed")
            /\ UNCHANGED oauth_sessions
    /\ UNCHANGED <<pkce_session, callback_data, callback_local, exchanged, oauth_logins,
                   callback_seen, notOAuth>>

NextOAuth ==
    \/ OAuthLogin
    \/ OAuthWaitBegin
    \/ \E code \in Codes, state \in OAuthStates, error \in BOOLEAN :
           CallbackRequest(code, state, error)
    \/ \E timed_out \in BOOLEAN : OAuthWaited(timed_out)
    \/ OAuthVerify
    \/ \E success \in BOOLEAN : OAuthExchange(success)
    \/ \E success \in BOOLEAN : OAuthSession(success)

----------------------------------------------------------------------------
(* Ordering a grocery list (order_grocery_list_async and                     *)
(* verify_cart_contents, src/services/integrations/blinkit.py), from the     *)
(* point where the items are put into the cart.                              *)

Orderers == {"u1", "u2"}

\* max_retries of verify_cart_contents, as order_grocery_list_async passes it
verify_max_retries == 3

\* what one attempt of verify_cart_contents sees: one of the strategies finds
\* items, none does, or a page call raises
CartViews == {"has_items", "empty", "raises"}

NoOrder == [auto_checkout |-> FALSE, attempt |-> 0, verification |-> "none",
            checkout_attempted |-> FALSE]

NoOrderResult == [success |-> "none", verification |-> "none",
                  checkout_attempted |-> FALSE]

\* process_grocery_list has run
OrderProcess(o, added_count, auto_checkout) ==
    /\ vpc[o] = "idle"
    /\ IF added_count = 0
       THEN /\ vres' = [vres EXCEPT ![o] = [NoOrderResult EXCEPT !.success = FALSE]]
            /\ UNCHANGED <<vpc, vreg>>
       ELSE /\ vpc' = [vpc EXCEPT ![o] = "verify"]
            /\ vreg' = [vreg EXCEPT ![o] = [NoOrder EXCEPT !.auto_checkout = auto_checkout]]
            /\ vres' = [vres EXCEPT ![o] = NoOrderResult]
    /\ UNCHANGED notOrder

\* one attempt of verify_cart_contents: it returns has_items = True, goes
\* round again, or raises CartVerificationError after the last attempt
VerifyAttempt(o, view) ==
    /\ vpc[o] = "verify"
    /\ IF view = "has_items"
       THEN /\ vreg' = [vreg EXCEPT ![o].verification = "passed"]
            /\ vpc' = [vpc EXCEPT ![o] = "checkout"]
            /\ vres' = vres
       ELSE IF vreg[o].attempt < verify_max_retries - 1
       THEN /\ vreg' = [vreg EXCEPT ![o].attempt = @ + 1]
            /\ UNCHANGED <<vpc, vres>>
       ELSE \* the except clause of order_grocery_list_async prints the error
            \* and goes on
            /\ vreg' = [vreg EXCEPT ![o].verification = "CartVerificationError"]
            /\ vpc' = [vpc EXCEPT ![o] = "checkout"]
            /\ vres' = vres
    /\ UNCHANGED notOrder

\* proceed_to_checkout when auto_checkout is set, and the result
OrderCheckout(o) ==
    /\ vpc[o] = "checkout"
    /\ vpc' = [vpc EXCEPT ![o] = "idle"]
    /\ vres' = [vres EXCEPT ![o] = [success |-> TRUE,
                                    verification |-> vreg[o].verification,
                                    checkout_attempted |-> vreg[o].auto_checkout]]
    /\ vreg' = [vreg EXCEPT ![o] = NoOrder]
    /\ UNCHANGED notOrder

NextOrder ==
    \/ \E o \in Orderers, added_count \in {0, 1}, auto_checkout \in BOOLEAN :
           OrderProcess(o, added_count, auto_checkout)
    \/ \E o \in Orderers, view \in CartViews : VerifyAttempt(o, view)
    \/ \E o \in Orderers : OrderCheckout(o)

----------------------------------------------------------------------------
(* The request loop (SmartFridgeSystem.run and check_system_health, main.py) *)
(* around MenuSystem.run (src/ui/menu.py), which serves the requests.        *)

max_db_failures == 3

RequestOutcomes == {"served", "DatabaseConnectionError"}

\* ServiceHealth.database as check_system_health leaves it: "error" when
\* reading is_connected raised
HealthStates == {"ok", "disconnected", "error"}

\* check_system_health on the database
HealthCount(health) == IF health = "ok" THEN 0 ELSE consecutive_db_failures + 1

\* ServiceHealth.is_critical_failure, the AI service being always "ok"
is_critical_failure(health) == health = "error"

\* SmartFridgeSystem.__init__ under main: _setup_database connects; a
\* failure is raised as CriticalError, which main answers with sys.exit(1)
MainSetup(connected) ==
    /\ mpc = "setup"
    /\ mpc' = IF connected THEN "start" ELSE "terminated"
    /\ critical' = IF connected THEN critical ELSE "setup"
    /\ exit_code' = IF connected THEN exit_code ELSE 1
    /\ UNCHANGED <<consecutive_db_failures, connection_failed_streak, requests,
                   cleanup_steps, tpc, notMain>>

\* run, to the login: the start-up health check
MainStart(health) ==
    /\ mpc = "start"
    /\ consecutive_db_failures' = HealthCount(health)
    /\ mpc' = IF is_critical_failure(health) THEN "CriticalError" ELSE "auth"
    /\ critical' = IF is_critical_failure(health) THEN "startup" ELSE critical
    /\ UNCHANGED <<connection_failed_streak, requests, exit_code, cleanup_steps, tpc,
                   notMain>>

\* run: show_auth_menu; without a user run returns
MainAuth(authenticated) ==
    /\ mpc = "auth"
    /\ mpc' = IF authenticated THEN "menu" ELSE "exited"
    /\ UNCHANGED <<consecutive_db_failures, connection_failed_streak, requests,
                   exitVars, notMain>>

\* MenuSystem.run executes the action of a menu item: what the action raises
\* is caught and printed there, and the menu goes on
MenuAction(outcome) ==
    /\ mpc = "menu"
    /\ requests < MaxRequests
    /\ requests' = requests + 1
    /\ connection_failed_streak' = IF outcome = "DatabaseConnectionError"
                                   THEN connection_failed_streak + 1 ELSE 0
    /\ UNCHANGED <<mpc, consecutive_db_failures, exitVars, notMain>>

\* the menu item that shows the system status runs check_system_health
MenuStatus(health) ==
    /\ mpc = "menu"
    /\ requests < MaxRequests
    /\ requests' = requests + 1
    /\ consecutive_db_failures' = HealthCount(health)
    /\ UNCHANGED <<mpc, connection_failed_streak, exitVars, notMain>>

\* a menu item of the Blinkit integration: get_blinkit_service for the
\* username it is given
MenuBlinkit(username) ==
    /\ mpc = "menu"
    /\ requests < MaxRequests
    /\ requests' = requests + 1
    /\ GetUnderLock("m1", username, FALSE)
    /\ UNCHANGED <<session_files, service_lock, kpc, kreg, app_user, logged_out,
                   handed_paths, retired, store_cleared, app_logins>>
    /\ UNCHANGED <<mpc, consecutive_db_failures, connection_failed_streak, exitVars,
                   notMainNotBlinkit>>

\* the menu item goes on to initialize the service it got
MenuInitialize ==
    /\ mpc = "menu"
    /\ InitializeService("m1")

\* an exception leaves MenuSystem.run from one of its own handlers (the end
\* of the input): run prints it and goes back to the head of the loop
MenuRaises ==
    /\ mpc = "menu"
    /\ requests < MaxRequests
    /\ requests' = requests + 1
    /\ mpc' = IF consecutive_db_failures >= max_db_failures
              THEN "CriticalError" ELSE "menu"
    /\ critical' = IF consecutive_db_failures >= max_db_failures
                   THEN "loop" ELSE critical
    /\ UNCHANGED <<consecutive_db_failures, connection_failed_streak, exit_code,
                   cleanup_steps, tpc, notMain>>

\* MenuSystem.run returns False: the user leaves
MenuLogout ==
    /\ mpc = "menu"
    /\ mpc' = "exited"
    /\ UNCHANGED <<consecutive_db_failures, connection_failed_streak, requests,
                   exitVars, notMain>>

NoTask == [pc |-> "none", svc |-> 0]

\* the browser of a service is running: close() has a round trip to wait for
BrowserRunning(svc) == services[svc].initialized /\ ~services[svc].closed

\* the thread of the event loop waits for _service_lock inside a task
LoopBlocked == \E u \in Usernames : tpc[u].pc = "acquiring"

\* run has ended, by its return, its break or its handler of CriticalError,
\* which prints the error and does not raise it again; the finally clause
\* runs _safe_cleanup, which starts with database.disconnect()
CleanupDisconnect ==
    /\ mpc \in {"exited", "CriticalError"}
    /\ cleanup_steps' = Append(cleanup_steps, "disconnect")
    /\ mpc' = "async_cleanup"
    /\ UNCHANGED <<consecutive_db_failures, connection_failed_streak, requests,
                   critical, exit_code, tpc, notMain>>

\* run_async_cleanup to its gather: order_automation.close(), which does
\* nothing, and one task of clear_user_blinkit_service per active user
CleanupGather ==
    /\ mpc = "async_cleanup"
    /\ service_lock = "none"
    /\ tpc' = [u \in Usernames |->
                  [NoTask EXCEPT !.pc = IF user_services[u] # 0 THEN "ready" ELSE "none"]]
    /\ cleanup_steps' = Append(cleanup_steps, "close_automation")
    /\ mpc' = "gather"
    /\ UNCHANGED <<consecutive_db_failures, connection_failed_streak, requests,
                   critical, exit_code, notMain>>

\* the event loop runs the task of a user from its start: with
\* _service_lock, a lock of the thread, taken the entry is popped, and the
\* task is suspended in service.close() with the lock held when a browser
\* is to be closed; when the lock is held the thread of the loop waits for it
ClearTaskRun(u) ==
    /\ mpc = "gather"
    /\ tpc[u].pc = "ready"
    /\ ~LoopBlocked
    /\ LET cur == user_services[u]
       IN IF service_lock # "none"
          THEN /\ tpc' = [tpc EXCEPT ![u].pc = "acquiring"]
               /\ UNCHANGED <<user_services, retired, got, service_lock,
                              cleanup_steps>>
          ELSE /\ user_services' = Popped(user_services, u)
               /\ retired' = [retired EXCEPT ![u] = @ \cup {cur}]
               /\ got' = [got EXCEPT ![u] = {}]
               /\ service_lock' = IF BrowserRunning(cur) THEN "loop" ELSE "none"
               /\ tpc' = [tpc EXCEPT ![u] = [pc |-> IF BrowserRunning(cur)
                                                          THEN "closing" ELSE "done",
                                                   svc |-> cur]]
               /\ cleanup_steps' = IF BrowserRunning(cur) THEN cleanup_steps
                                   ELSE Append(cleanup_steps, "clear")
    /\ UNCHANGED <<services, session_files, kpc, kreg, kres, kheld, app_user,
                   logged_out, handed_paths, store_cleared, app_logins>>
    /\ UNCHANGED <<mainVars, critical, exit_code, notMainNotBlinkit>>

\* the loop has run every task that was ready and the browser has answered:
\* the task goes on after service.close(), leaves the lock and returns True
ClearTaskClosed(u) ==
    /\ mpc = "gather"
    /\ tpc[u].pc = "closing"
    /\ ~LoopBlocked
    /\ \A v \in Usernames : tpc[v].pc # "ready"
    /\ services' = [services EXCEPT ![tpc[u].svc].closed = TRUE]
    /\ service_lock' = "none"
    /\ tpc' = [tpc EXCEPT ![u].pc = "done"]
    /\ cleanup_steps' = Append(cleanup_steps, "clear")
    /\ UNCHANGED <<user_services, session_files, kpc, kreg, kres, kheld, app_user,
                   logged_out, handed_paths, got, retired, store_cleared, app_logins>>
    /\ UNCHANGED <<mainVars, critical, exit_code, notMainNotBlinkit>>

\* gather has every result: _safe_cleanup and run return, and main, with no
\* exception to handle, ends with status 0
RunReturns ==
    /\ mpc = "gather"
    /\ \A u \in Usernames : tpc[u].pc \in {"none", "done"}
    /\ mpc' = "terminated"
    /\ exit_code' = 0
    /\ UNCHANGED <<consecutive_db_failures, connection_failed_streak, requests,
                   critical, cleanup_steps, tpc, notMain>>

NextMain ==
    \/ \E connected \in BOOLEAN : MainSetup(connected)
    \/ \E health \in HealthStates : MainStart(health)
    \/ \E authenticated \in BOOLEAN : MainAuth(authenticated)
    \/ \E outcome \in RequestOutcomes : MenuAction(outcome)
    \/ \E health \in HealthStates : MenuStatus(health)
    \/ \E username \in Usernames : MenuBlinkit(username)
    \/ MenuInitialize
    \/ MenuRaises
    \/ MenuLogout
    \/ CleanupDisconnect
    \/ CleanupGather
    \/ \E u \in Usernames : ClearTaskRun(u)
    \/ \E u \in Usernames : ClearTaskClosed(u)
    \/ RunReturns

----------------------------------------------------------------------------

vars == <<clockVars, envVars, authVars, groceryVars, cacheVars, breakerVars, blinkitVars,
         providerVars, coreVars>>

Init ==
    /\ now = 0
    /\ ticks = 0
    /\ utc_offset \in UtcOffsets
    /\ auth_sessions = {}
    /\ auth_audit_log = [e \in EventTypes |-> 0]
    /\ tokens = <<>>
    /\ issued_pairs = {}
    /\ rotations = {}
    /\ next_sid = 1
    /\ apc = [c \in Clients |-> "idle"]
    /\ areg = [c \in Clients |-> NoRegs]
    /\ ares = [c \in Clients |-> "none"]
    /\ grocery_lists = {}
    /\ next_list_id = 1
    /\ gpc = [e \in Editors |-> "idle"]
    /\ greg = [e \in Editors |-> NoEdit]
    /\ gres = [e \in Editors |-> NoResult]
    /\ cache_files = [k \in CacheKeys |-> NoFile]
    /\ memory_cache = [k \in CacheKeys |-> 0]
    /\ payload_meta = <<>>
    /\ invalidated_payloads = {}
    /\ inval_started = 0
    /\ inval_done = 0
    /\ cpc = [t \in CacheThreads |-> "idle"]
    /\ creg = [t \in CacheThreads |-> NoCall]
    /\ cres = [t \in CacheThreads |-> NoLookup]
    /\ cb_state = "CLOSED"
    /\ failure_count = 0
    /\ last_failure_time = -1
    /\ consecutive_failures = 0
    /\ bpc = [k \in Callers |-> "idle"]
    /\ bres = [k \in Callers |-> "none"]
    /\ bentry = [k \in Callers |-> NoEntry]
    /\ user_services = [u \in Usernames |-> 0]
    /\ services = <<>>
    /\ session_files = [d \in SessionDirs |-> NoDir]
    /\ service_lock = "none"
    /\ kpc = [t \in BThreads |-> "idle"]
    /\ kreg = [t \in BThreads |-> NoBCall]
    /\ kres = [t \in BThreads |-> NoBRes]
    /\ kheld = [t \in BThreads |-> 0]
    /\ app_user = NoUser
    /\ logged_out = {}
    /\ handed_paths = {}
    /\ got = [u \in Usernames |-> {}]
    /\ retired = [u \in Usernames |-> {}]
    /\ store_cleared = [d \in SessionDirs |-> FALSE]
    /\ app_logins = 0
    /\ users_v2 = {}
    /\ next_uid = 1
    /\ ppc = [c \in Clients |-> "idle"]
    /\ preg = [c \in Clients |-> NoPCall]
    /\ pres = [c \in Clients |-> NoPRes]
    /\ streak = 0
    /\ fifth_started = 0
    /\ fifth_returned = 0
    /\ reset_mail = {}
    /\ reset_revoked = {}
    /\ reset_used = {}
    /\ db_state = "DISCONNECTED"
    /\ db_client = 0
    /\ db_lock = "none"
    /\ shutdown = FALSE
    /\ wpc = "none"
    /\ dpc = [t \in ConnThreads |-> "idle"]
    /\ dattempt = [t \in ConnThreads |-> 0]
    /\ dres = [t \in ConnThreads |-> "none"]
    /\ xpc = "idle"
    /\ xreg = NoTxn
    /\ xres = NoTxnResult
    /\ txn_state = "none"
    /\ xruns = 0
    /\ opc = "idle"
    /\ pkce_session = 0
    /\ callback_data = NoCallback
    /\ callback_local = NoCallback
    /\ server_up = FALSE
    /\ exchanged = {}
    /\ oauth_sessions = {}
    /\ oauth_logins = 0
    /\ ores = "none"
    /\ callback_seen = FALSE
    /\ vpc = [o \in Orderers |-> "idle"]
    /\ vreg = [o \in Orderers |-> NoOrder]
    /\ vres = [o \in Orderers |-> NoOrderResult]
    /\ mpc = "setup"
    /\ consecutive_db_failures = 0
    /\ connection_failed_streak = 0
    /\ requests = 0
    /\ critical = "none"
    /\ exit_code = None
    /\ cleanup_steps = <<>>
    /\ tpc = [u \in Usernames |-> NoTask]

NextAuth ==
    \/ \E c \in Clients, u \in AuthUsers : CreateSessionInsert(c, u)
    \/ \E c \in Clients : CreateSessionAudit(c)
    \/ \E c \in Clients, tok \in 1..(2 * MaxPairs) : RefreshFind(c, tok)
    \/ \E c \in Clients : RefreshUpdate(c)
    \/ \E c \in Clients : RefreshAudit(c)
    \/ \E c \in Clients, tok \in 1..(2 * MaxPairs) : ValidateFind(c, tok)
    \/ \E c \in Clients : ValidateTouch(c)
    \/ \E c \in Clients, tok \in 1..(2 * MaxPairs) : RevokeUpdate(c, tok)
    \/ \E c \in Clients : RevokeAudit(c)
    \/ TtlReap
    \/ TickAuth

SpecAuth == Init /\ [][NextAuth]_vars

\* logins and refreshes alone, with room for MaxRefreshPairs token pairs
NextRefresh ==
    \/ \E c \in Clients, u \in AuthUsers : CreateSessionInsertUpTo(c, u, MaxRefreshPairs)
    \/ \E c \in Clients : CreateSessionAudit(c)
    \/ \E c \in Clients, tok \in 1..(2 * MaxRefreshPairs) :
           RefreshFindUpTo(c, tok, MaxRefreshPairs)
    \/ \E c \in Clients : RefreshUpdate(c)
    \/ \E c \in Clients : RefreshAudit(c)

SpecRefresh == Init /\ [][NextRefresh]_vars

SpecGrocery == Init /\ [][NextGrocery]_vars

SpecGroceryApi == Init /\ [][NextGroceryApi]_vars

SpecGroceryNames == Init /\ [][NextGroceryNames]_vars

SpecCache == Init /\ [][NextCache]_vars

SpecBreaker == Init /\ [][NextBreaker]_vars

SpecBlinkit == Init /\ [][NextBlinkit]_vars

SpecProvision == Init /\ [][NextProvision]_vars

SpecLogin == Init /\ [][NextLogin]_vars

SpecReset == Init /\ [][NextReset]_vars

SpecConn == Init /\ [][NextConn]_vars

SpecTxn == Init /\ [][NextTxn]_vars

SpecOAuth == Init /\ [][NextOAuth]_vars

SpecOrder == Init /\ [][NextOrder]_vars

SpecMain == Init /\ [][NextMain]_vars

\* the event loop of the cleanup and the thread of main keep running
SpecMainFair == SpecMain /\ WF_vars(NextMain)

----------------------------------------------------------------------------
(* Claims about the authentication service, checked under SpecAuth *)

\* C1: every TokenPair returned to a caller has, at the moment of return, a
\* session row with its access jti and revoked = false (the live flag of a
\* returned pair is that lookup, taken in the step that returns it).
C1_ReturnedPairIsLive == \A p \in issued_pairs : p.live

\* C2: once a rotation has committed, the old access jti and the old refresh
\* jti match no usable session, so the old and the new pair are never both
\* accepted.
C2_OldJtisUnroutable ==
    \A rot \in rotations :
        /\ FindByAccess(rot.old_access) = {}
        /\ FindByRefresh(rot.old_refresh) = {}
        /\ ~(FindByAccess(rot.old_access) # {} /\ FindByAccess(rot.new_access) # {})

\* a rotation has committed and its new pair is the routable one
C2_Witness ==
    \E rot \in rotations :
        /\ FindByAccess(rot.new_access) # {}
        /\ FindByRefresh(rot.new_refresh) # {}

\* C3: a validate_session or refresh_token call that starts when the session
\* of the presented token is already revoked ends at once with null.
C3_RevokedIsRejected ==
    \A c \in Clients :
        areg[c].start_revoked => (apc[c] = "idle" /\ ares[c] = "null")

\* a call presented an unexpired, well-signed token of a revoked session and
\* got null
C3_Witness ==
    \E c \in Clients :
        /\ areg[c].start_revoked
        /\ ares[c] = "null"
        /\ apc[c] = "idle"
        /\ validate_token(tokens, areg[c].tok, tokens[areg[c].tok].type)
        /\ auth_audit_log["token_revoked"] > 0

\* validate_session or refresh_token would succeed against the row right now
Usable(s) ==
    \/ /\ validate_token(tokens, s.access_token_jti, "access")
       /\ s \in FindByAccess(s.access_token_jti)
    \/ /\ validate_token(tokens, s.refresh_token_jti, "refresh")
       /\ s \in FindByRefresh(s.refresh_token_jti)

\* C4: a session is usable iff revoked = false and now < expires_at, the
\* value stored on its row.
C4_UsableIffNotRevokedNotExpired ==
    \A s \in auth_sessions :
        Usable(s) <=> (s.revoked = FALSE /\ now < s.expires_at)

----------------------------------------------------------------------------
(* Claims about grocery lists, checked under SpecGrocery (C7 under          *)
(* SpecGroceryApi)                                                         *)

\* a save with an expected_version has returned to its caller
VersionedSaveDone(e) ==
    /\ gres[e].outcome \notin {"none", "inserted"}
    /\ gres[e].expected # None

\* C5 (as stated): an update with expected_version = v succeeds iff the stored
\* version at the time of the update is v, and then the stored version is v+1.
C5_SucceedsIffVersionMatches ==
    \A e \in Editors :
        VersionedSaveDone(e) =>
            /\ gres[e].outcome = "updated" <=> gres[e].stored_before = gres[e].expected
            /\ gres[e].outcome = "updated" => gres[e].stored_after = gres[e].expected + 1

\* C5 (amended): an update with expected_version = v succeeds only if the
\* stored version is v, from its write until its commit, and the stored
\* version is then v+1; it fails whenever the stored version differs from v;
\* with the stored version equal to v it fails only when max_retries attempts
\* in a row met a write conflict with another open transaction.
C5_VersionCheckedUpdate ==
    \A e \in Editors :
        /\ VersionedSaveDone(e) =>
             /\ gres[e].outcome = "updated" =>
                  /\ gres[e].stored_before = gres[e].expected
                  /\ gres[e].stored_after = gres[e].expected + 1
             /\ gres[e].outcome # "updated" =>
                  \/ gres[e].stored_before # gres[e].expected
                  \/ gres[e].cause = "WriteConflict"
        /\ (gpc[e] = "written" /\ greg[e].write.kind = "update"
                /\ greg[e].expected_version # None) =>
             StoredVersion(grocery_lists, greg[e].write.id) = greg[e].expected_version

\* two editors saved the same list with the same expected_version: one
\* succeeded, the other met the version it did not expect
C5_Witness ==
    \E a, b \in Editors :
        /\ gres[a].outcome = "updated"
        /\ gres[a].expected # None
        /\ gres[a].stored_after = gres[a].expected + 1
        /\ gres[b].cause = "VersionConflictError"
        /\ gres[b].expected = gres[a].expected
        /\ gres[b].target = gres[a].target
        /\ gres[b].stored_before = gres[a].stored_after

\* C6: after A's write with the expected_version both callers read has
\* succeeded, B's write with that expected_version ends with VersionConflict
\* as B's caller sees it, and the stored version stays what A made it.
C6_StaleWriterSeesVersionConflict ==
    \A a, b \in Editors :
        ( /\ gres[a].outcome = "updated"
          /\ gres[a].expected # None
          /\ VersionedSaveDone(b)
          /\ gres[b].expected = gres[a].expected
          /\ gres[b].target = gres[a].target
          /\ gres[b].stored_before = gres[a].stored_after )
        => /\ gres[b].outcome = "VersionConflictError"
           /\ gres[b].stored_after = gres[b].stored_before

\* C7: every mutation of a stored list increments its version by exactly one.
C7_VersionStepsByOne ==
    [][\A l \in grocery_lists : \A m \in grocery_lists' :
          (m.id = l.id /\ m # l) => m.version = l.version + 1]_vars

----------------------------------------------------------------------------
\* C8: a lookup returns a hit only if the entry it is served from carries the
\* fingerprint of the caller's profile, is no older than the time-to-live and
\* is not invalidated, whichever tier serves it.
C8_HitOnlyFromValidEntry ==
    \A t \in CacheThreads : cres[t].kind = "hit" => cres[t].entry_ok

\* C9: once an invalidation has returned, no lookup that starts afterwards
\* returns a response that was cached before that invalidation started.
C9_NoPreInvalidationPayload ==
    \A t \in CacheThreads :
        cres[t].kind = "hit" =>
            ~ /\ payload_meta[cres[t].response].cached_before > 0
              /\ payload_meta[cres[t].response].cached_before <= cres[t].start_done
----------------------------------------------------------------------------
\* C10: after failure_threshold failures in a row the breaker is open, and a
\* call made before the cooldown has elapsed is refused with the open-circuit
\* error without the wrapped request being sent.
C10_OpenAfterThresholdFailures ==
    /\ ShortCircuitDue => cb_state = "OPEN"
    /\ \A k \in Callers :
          bentry[k].due => bres[k] = "CircuitOpen" /\ ~bentry[k].invoked

C10_Witness ==
    \E k \in Callers :
        /\ bentry[k].due
        /\ bres[k] = "CircuitOpen"
        /\ consecutive_failures = failure_threshold
        /\ ShortCircuitDue
----------------------------------------------------------------------------
\* C11: once the cooldown has elapsed with the breaker open, at most one call
\* is in flight against the dependency as a probe (a call that found the
\* breaker open or half-open) until the breaker's next state is decided, also
\* with several callers.
C11_SingleProbe ==
    Cardinality({k \in Callers : /\ bpc[k] = "invoking"
                                 /\ bentry[k].found \in {"OPEN", "HALF_OPEN"}}) <= 1

\* C12: a call that finds the breaker open at least the cooldown after the
\* last failure is executed against the dependency; when it succeeds the
\* breaker is closed, when it fails the breaker is open with the cooldown
\* counted from that failure.
C12_ProbeAfterCooldown ==
    /\ [](\A k \in Callers : bentry[k].late => bentry[k].invoked)
    /\ [][\A k \in Callers :
            (bentry[k].late /\ bpc[k] = "invoking" /\ bpc'[k] = "idle") =>
                /\ bres'[k] = "ok" => cb_state' = "CLOSED"
                /\ bres'[k] = "failed" =>
                       cb_state' = "OPEN" /\ last_failure_time' = now]_vars
----------------------------------------------------------------------------
\* C13: two different usernames are never handed the same auth-state path.
C13_DistinctUsersDistinctPaths ==
    \A g, h \in handed_paths : g.username # h.username => g.path # h.path

\* C14: the Get calls for one username with no Clear in between all return
\* the same service instance, initialized or not.
C14_GetIdempotent ==
    \A u \in Usernames : Cardinality(got[u]) <= 1

C16_LogoutClosesAndClears ==
    /\ \A u \in logged_out :
          /\ user_services[u] = 0
          /\ ~session_exists(u)
          /\ \A i \in 1..Len(services) :
                (services[i].username = u /\ services[i].initialized)
                    => services[i].closed
    /\ \A t \in BThreads : kpc[t] = "clear_files" => service_lock = t
----------------------------------------------------------------------------
\* C20: validate_token(token, expected_type) returns the claims if and only if
\* the signature verifies, the token's type is the expected one and the
\* current time is before the token's exp; in particular an access token
\* validates as an access token at the moment it is generated, and never as a
\* refresh or a reset token.
C20_ValidateIffSignedTypedUnexpired ==
    /\ \A jti \in 0..(2 * MaxPairs), ty \in TokenTypes :
           validate_token(tokens, jti, ty) <=>
               /\ jti \in 1..Len(tokens)
               /\ tokens[jti].type = ty
               /\ now < tokens[jti].exp
    /\ \A jti \in 1..Len(tokens) :
           (tokens[jti].type = "access" /\ tokens[jti].exp = now + JWT_ACCESS_TOKEN_EXPIRY) =>
               /\ validate_token(tokens, jti, "access")
               /\ ~validate_token(tokens, jti, "refresh")
               /\ ~validate_token(tokens, jti, "reset")

----------------------------------------------------------------------------
\* no other caller is inside authenticate
Quiet(c) == \A d \in Clients \ {c} : ~InAuthenticate(d)

\* C17: after exactly MAX_LOGIN_ATTEMPTS wrong-password logins in a row (one
\* at a time, none successful in between) a login with the right password is
\* rejected as locked while less than LOCKOUT_DURATION has passed since the
\* last of them; once LOCKOUT_DURATION has passed it is accepted, and the
\* accepted login leaves failed_login_attempts at 0 and the lock cleared.
C17_LockoutAfterFiveFailures ==
    /\ [][\A c \in Clients, e \in Emails :
             (/\ streak = MAX_LOGIN_ATTEMPTS
              /\ Quiet(c)
              /\ now < fifth_started + LOCKOUT_DURATION
              /\ AuthFind(c, e, "pw"))
             => /\ ppc'[c] = "idle"
                /\ pres'[c] = [op |-> "authenticate", outcome |-> "locked",
                               email |-> e, password |-> "pw"]]_vars
    /\ [][\A c \in Clients, e \in Emails :
             (/\ streak = MAX_LOGIN_ATTEMPTS
              /\ Quiet(c)
              /\ now >= fifth_returned + LOCKOUT_DURATION
              /\ AuthFind(c, e, "pw"))
             => ppc'[c] = "auth_ok_update"]_vars
    /\ [][\A c \in Clients :
             (/\ ppc[c] = "auth_audit"
              /\ preg[c].outcome = "success"
              /\ ~preg[c].overlapped
              /\ ppc'[c] = "idle")
             => /\ pres'[c].outcome = "success"
                /\ \A u \in ByEmail(preg[c].email) :
                       u.failed_login_attempts = 0 /\ u.locked_until = None]_vars

\* a login with the right password passes the lock check after the lockout,
\* and the other caller's login with the right password was rejected as locked
C17_Witness ==
    \E c \in Clients, d \in Clients :
        /\ ppc[c] = "auth_ok_update"
        /\ streak = MAX_LOGIN_ATTEMPTS
        /\ now >= fifth_returned + LOCKOUT_DURATION
        /\ pres[d].outcome = "locked"
        /\ pres[d].password = "pw"
        /\ \E u \in users_v2 : u.failed_login_attempts = MAX_LOGIN_ATTEMPTS

----------------------------------------------------------------------------
\* C18: under any interleaving of password registrations and Google
\* provision-or-link calls no email has more than one row in users_v2, and
\* an email for which one of them has returned success (or has been refused
\* as already registered) has exactly one row.
C18_OneRowPerEmail ==
    /\ \A e \in Emails : Cardinality(ByEmail(e)) <= 1
    /\ \A c \in Clients :
           (/\ pres[c].op \in {"register", "provision"}
            /\ pres[c].outcome \in {"success", "already_registered"})
           => Cardinality(ByEmail(pres[c].email)) = 1

\* two calls raced for one email: one has inserted the row and returned, the
\* other found no row and had its insert refused
C18_Witness ==
    \E c \in Clients, d \in Clients :
        /\ pres[c].outcome = "server_error"
        /\ pres[d].outcome = "success"
        /\ pres[c].email = pres[d].email
        /\ pres[c].op # pres[d].op
        /\ Cardinality(ByEmail(pres[c].email)) = 1

----------------------------------------------------------------------------
\* C19: once reset_password has returned True for a user, every session row
\* that carries a token signed for that user before the reset began is
\* revoked, and a validate_session or refresh_token call that starts from then
\* on with such a token ends at once with null: no session, no new TokenPair.
C19_ResetRevokesPriorSessions ==
    /\ [](\A s \in auth_sessions :
             (s.access_token_jti \in reset_revoked \/ s.refresh_token_jti \in reset_revoked)
             => s.revoked)
    /\ [][\A c \in Clients : \A tok \in reset_revoked :
             (RefreshFind(c, tok) \/ ValidateFind(c, tok))
             => (apc'[c] = "idle" /\ ares'[c] = "null")]_vars

\* after a completed reset a caller presented an unexpired token signed
\* before it, whose session row is still in the store, and got null
C19_Witness ==
    \E c \in Clients :
        /\ areg[c].tok \in reset_revoked
        /\ areg[c].start_revoked
        /\ apc[c] = "idle"
        /\ ares[c] = "null"
        /\ validate_token(tokens, areg[c].tok, tokens[areg[c].tok].type)
        /\ FindByEither(areg[c].tok) # {}
        /\ \E d \in Clients : pres[d].op = "reset_password" /\ pres[d].outcome = "success"

----------------------------------------------------------------------------
(* Claims about the connection manager, checked under SpecConn *)

\* the edges of the connection state machine as the specification lists them
ListedEdges ==
    {<<"DISCONNECTED", "CONNECTING">>, <<"CONNECTING", "CONNECTED">>,
     <<"CONNECTED", "DISCONNECTED">>, <<"ERROR", "DISCONNECTED">>}
    \cup {<<s, "ERROR">> : s \in {"DISCONNECTED", "CONNECTING", "CONNECTED"}}

\* C21 as stated: the manager starts in Disconnected and its state changes
\* only along Disconnected -> Connecting -> Connected, any state -> Error,
\* Connected -> Disconnected and Error -> Disconnected.
C21_OnlyListedEdges ==
    /\ db_state = "DISCONNECTED"
    /\ [][db_state' # db_state => <<db_state, db_state'>> \in ListedEdges]_vars

\* C21 as amended: the manager starts in Disconnected and its state changes
\* only along the listed edges and along Error -> Connecting, which
\* EnsureConnected takes when it retries or is called again after a failure.
C21_ListedEdgesAndRetry ==
    /\ db_state = "DISCONNECTED"
    /\ [][db_state' # db_state =>
            <<db_state, db_state'>> \in ListedEdges \cup {<<"ERROR", "CONNECTING">>}]_vars

\* EnsureConnected is in its second attempt, so the state has gone from Error
\* to Connecting; and a Disconnect has taken the manager back before
C21_Witness ==
    \E t \in ConnThreads, d \in ConnThreads :
        /\ dpc[t] = "ec_connect"
        /\ dattempt[t] >= 1
        /\ db_state = "CONNECTING"
        /\ dres[d] = "disconnected"

\* C22: once a Disconnect has returned and has left the manager Disconnected
\* with no call in progress, a health-check worker that is still running has
\* its shutdown event set (it ends at its next test of the event), whatever
\* EnsureConnected did concurrently.
C22_DisconnectStopsWorker ==
    (/\ \A t \in ConnThreads : dpc[t] = "idle"
     /\ db_state = "DISCONNECTED"
     /\ WorkerAlive)
    => shutdown

----------------------------------------------------------------------------
(* Claims about the transaction runtime, checked under SpecTxn *)

\* C23: a call of ExecuteInTransaction never ends on a transient failure
\* (raised at the start of the transaction, by an operation of fn, or at
\* commit) while fewer than maxAttempts attempts have been made: it runs fn
\* again instead.
C23_TransientIsRetried ==
    (/\ xres.outcome = "TransactionError"
     /\ xres.cause \in Transient)
    => xres.attempts = max_retries

\* C24: only a transient failure is followed by another attempt; a
\* non-transient failure ends the call at once with the error and with no
\* further invocation of fn; and fn is invoked at most maxAttempts times in
\* one call.
C24_OnlyTransientRetried ==
    /\ [](xreg.fn_calls <= max_retries /\ xres.fn_calls <= max_retries)
    /\ [](xpc = "sleep" => xreg.raised \in Transient)
    /\ [][\A e \in DriverErrors \ (Transient \cup {"none"}) :
            (TxnOp(e) /\ ~TimedOut(xreg.start_time))
            => /\ xpc' = "idle"
               /\ xres'.outcome = "TransactionError"
               /\ xres'.cause = e
               /\ xres'.fn_calls = xreg.fn_calls]_vars
    /\ [][xreg'.fn_calls > xreg.fn_calls =>
            (xreg.fn_calls = 0 \/ xreg.raised \in Transient)]_vars

\* the second attempt of a call ended on a non-transient failure of an
\* operation of fn, after a transient failure of the first
C24_Witness ==
    /\ xpc = "idle"
    /\ xres.outcome = "TransactionError"
    /\ xres.cause = "OperationFailure"
    /\ xres.stage = "fn"
    /\ xres.fn_calls = 2

\* C25: an operation issued on a transaction more than timeout_seconds after
\* its start is not executed: the call fails with TransactionTimeoutError and
\* the transaction is aborted; and a transaction that has timed out is never
\* committed.
C25_LateOperationAborts ==
    /\ [][\A e \in DriverErrors :
            (TxnOp(e) /\ now - xreg.start_time > timeout_seconds)
            => /\ xreg'.ops = xreg.ops
               /\ txn_state' = "aborted"
               /\ xres'.cause = "TransactionTimeoutError"
               /\ xres'.outcome = "TransactionError"]_vars
    /\ [](xres.cause = "TransactionTimeoutError" => txn_state = "aborted")

\* an operation was issued after the deadline, after an earlier one had been
\* executed in time
C25_Witness ==
    /\ xres.cause = "TransactionTimeoutError"
    /\ xreg.ops = 1
    /\ txn_state = "aborted"

----------------------------------------------------------------------------
(* Claims about session creation and the providers *)

\* C26: when no session creation is in progress, every session row that was
\* inserted has its tokens_issued audit record: as many records as rows.
C26_SessionAndAuditTogether ==
    (\A c \in Clients : apc[c] # "cs_inserted")
    => auth_audit_log["tokens_issued"] = next_sid - 1

\* C27: a call of the password provider's Authenticate returns only from the
\* step that inserts its audit record, whatever the outcome.
C27_EveryOutcomeAudited ==
    [][\A c \in Clients :
         (pres'[c] # pres[c] /\ pres'[c].op = "authenticate")
         => ppc[c] = "auth_audit"]_vars

\* C28: the authorization code of a callback is exchanged, and a session
\* created, only when the state of that callback equals the state of the
\* pending PKCE session; a callback with another state ends the login.
C28_ExchangeOnlyAfterStateCheck ==
    /\ [](opc \in {"exchange", "exchanged"} => callback_local.state = pkce_session)
    /\ [](\A x \in exchanged \cup oauth_sessions : x.state = x.session_state)
    /\ [][(opc = "received" /\ ~callback_local.error
           /\ callback_local.state # pkce_session /\ opc' # opc)
          => (opc' = "idle" /\ ores' = "invalid_state"
              /\ exchanged' = exchanged /\ oauth_sessions' = oauth_sessions)]_vars

\* a login was ended by a callback with the state of an earlier login, whose
\* code had been exchanged
C28_Witness ==
    /\ ores = "invalid_state"
    /\ callback_local.state # pkce_session
    /\ \E x \in exchanged : x.state = callback_local.state

----------------------------------------------------------------------------
(* Claims about ordering and the request loop *)

\* C29: an order whose cart verification failed in every attempt is not
\* returned with success = true, and no checkout is attempted for it.
C29_VerificationFailureReported ==
    \A o \in Orderers :
        /\ vres[o].verification = "CartVerificationError"
           => (vres[o].success = FALSE /\ ~vres[o].checkout_attempted)
        /\ vreg[o].verification = "CartVerificationError" => vpc[o] # "checkout"

\* C30: the request loop has escalated to the critical error exactly when
\* max_db_failures requests in a row have failed with the connection error.
C30_EscalatesAtThreshold ==
    /\ critical = "loop" => connection_failed_streak >= max_db_failures
    /\ connection_failed_streak >= max_db_failures => critical = "loop"

----------------------------------------------------------------------------
(* Claims about the end of the process *)

\* C31: a process that ended after a CriticalError was raised has exit code
\* 1, and a process that ended with exit code 0 raised none.
C31_CriticalErrorExitsWithOne ==
    exit_code # None => (critical # "none" <=> exit_code = 1)

\* C32: when cleanup disconnects the document store, no registered service
\* still has its automation session open.
C32_SessionsClosedBeforeDisconnect ==
    (\E i \in 1..Len(cleanup_steps) : cleanup_steps[i] = "disconnect")
        => \A u \in Usernames :
               user_services[u] # 0 => ~BrowserRunning(user_services[u])

\* C33: a cleanup that has started its tasks comes to its end, whatever the
\* number of users with a live service.
C33_CleanupTerminates == (mpc = "gather") ~> (mpc = "terminated")

----------------------------------------------------------------------------
(* Claims about the names of grocery lists *)

\* C34: no two stored grocery lists of one user have the same name.
C34_NamesUniquePerUser ==
    \A l1, l2 \in grocery_lists :
        (l1.username = l2.username /\ l1.name = l2.name) => l1.id = l2.id

----------------------------------------------------------------------------
(* Claims about the files of the session store *)

\* C35: in every session directory the metadata file and the auth-state
\* file are both present or both absent.
C35_MetadataAndAuthStateTogether ==
    \A d \in SessionDirs : session_files[d].metadata = session_files[d].auth_state

----------------------------------------------------------------------------
(* Claims about the redemption of refresh tokens *)

\* C36: no two calls of refresh_token that were given the same refresh token
\* have both returned a TokenPair.
C36_RefreshTokenRedeemedOnce ==
    \A c1, c2 \in Clients :
        (/\ apc[c1] = "idle" /\ apc[c2] = "idle"
         /\ ares[c1] = "pair" /\ ares[c2] = "pair"
         /\ areg[c1].tok # 0
         /\ areg[c1].tok = areg[c2].tok) => c1 = c2

----------------------------------------------------------------------------
(* Claims about the health-check worker of a connected manager *)

\* C37: when ensure_connected returns from a successful connect, and no
\* disconnect is under way, a worker is alive and the shutdown event is clear.
C37_ConnectedHasWorker ==
    [][\A t \in ConnThreads :
          (/\ EnsureAttempt(t, TRUE)
           /\ \A d \in ConnThreads : dpc[d] \notin {"dc_lock", "dc_join"})
              => (WorkerAlive' /\ ~shutdown')]_vars

----------------------------------------------------------------------------
(* Claims about the count of failed logins *)

\* C38: the update of a wrong-password login leaves the stored
\* failed_login_attempts of the account one higher than it was.
C38_FailureCountsOnce ==
    [][\A c \in Clients :
          AuthFailUpdate(c) =>
              \A u \in users_v2 :
                  u._id = preg[c].user_id =>
                      \E v \in users_v2' :
                          /\ v._id = u._id
                          /\ v.failed_login_attempts = u.failed_login_attempts + 1]_vars

----------------------------------------------------------------------------
(* Claims about the reset token *)

\* C39: a reset_password call that begins with a token with which
\* reset_password has already returned True is refused at once, and leaves
\* the rows of users_v2 and of auth_sessions as they were.
C39_ResetTokenSingleUse ==
    [][\A c \in Clients : \A t \in reset_used :
          ResetFind(c, t) =>
              /\ ppc'[c] = "idle"
              /\ pres'[c].op = "reset_password"
              /\ pres'[c].outcome # "success"
              /\ users_v2' = users_v2
              /\ auth_sessions' = auth_sessions]_vars

\* a used token was presented again while it was still within its signed
\* lifetime and its user still existed, and the call was refused
C39_Witness ==
    \E c \in Clients : \E t \in reset_used :
        /\ ppc[c] = "idle"
        /\ pres[c].op = "reset_password"
        /\ pres[c].outcome = "invalid_token"
        /\ validate_token(<<t>>, 1, "reset")
        /\ \E u \in users_v2 : u._id = ObjectId(t.sub) /\ u.password_hash = "new"

----------------------------------------------------------------------------
(* Claims about the callback server *)

\* C40: a login whose callback server handled a request with parameters
\* after start() does not end with the timeout of wait_for_callback.
C40_CallbackDelivered ==
    (opc = "idle" /\ ores = "timeout") => ~callback_seen

====
